---- MODULE Spec2Model ----
(***************************************************************************)
(* A model of hmoog, the out-of-game driver of the Hackmud console.        *)
(*                                                                         *)
(* The console host appends lines to shell.txt; the engine injects         *)
(* keystrokes and reads the file back.  A line is a sequence of string     *)
(* tokens: a colour tag is one token, every other token is one character   *)
(* (or one fixed chunk of characters inside a message constant).           *)
(*                                                                         *)
(* The repository holds two correlation strategies:                        *)
(*   - the marker-based engine (updateShell, placeShellFlag, flush,        *)
(*     processOutput), modelled by the specification Spec;                 *)
(*   - the echo-based engine (run, #flush, #readShell, #postProcess),      *)
(*     modelled by the specification RunSpec;                              *)
(* and two families of pure functions: the echo matchers, applied to       *)
(* batches of lines by EchoSpec, and the cooldown parsers, applied to      *)
(* responses of kernel.hardline by CooldownSpec.                           *)
(***************************************************************************)
EXTENDS Integers, Sequences, FiniteSets, TLC

VARIABLES
    \* ---- the console host -------------------------------------------
    log,               \* shell.txt as readFile(...).split('\n') sees it
    typed,             \* keystroke lines injected and not yet echoed
    \* ---- the marker-based engine (HmOog of src/unnamed/part_001) -----
    lastShellFlag,     \* the Session Marker, or "undefined"
    unprocessedLines,  \* the pending buffer
    didInit,
    isInHardline,
    uuids,             \* how many markers randomUUID() has produced
    pc,                \* where the caller of the engine stands
    ret,               \* what the last updateShell returned or threw
    \* ---- the echo matchers and cooldown parsers, applied to inputs ----
    pstep,             \* "input", or the function that was applied
    pLines,            \* the batch of lines
    pCommand,          \* the command
    pMessage,          \* the rejection message of the cooldown line
    pSeconds,          \* the seconds the cooldown line carries
    outPost,           \* what #postProcess returned
    outProc,           \* what processOutput returned or that it threw
    outCool,           \* what #getHardlineCooldown returned
    outCoolBuf,        \* what getHardlineCooldown returned or that it threw
    \* ---- the echo-based engine (HmOog of src/src/handling.ts) --------
    op,                \* the public operation called last
    rpc,               \* where that operation stands, "idle" when it is over
    runCommand,        \* command, timeout and retry of the call
    runTimeout,
    runRetry,
    didReallyTimeout,  \* run's flag of the overall budget
    runTimerArmed,     \* run's waitMs(timeout) has not fired yet
    lastCommand,       \* the Pending Command: <<>> or <<command>>
    isHardlineActive,
    didTimeout,        \* the flags of the #flush in progress
    didFlush,
    flushTimerArmed,   \* its waitMs(timeout) has not fired yet
    waiting,           \* its waitForChange() promise is unresolved
    listeners,         \* how many resolvers the FileWatcher holds
    sends,             \* sendCommand(command) calls of the current run
    calls,             \* operations called so far
    burst,             \* filler bursts enterHardline has sent
    outcome,           \* how the operation ended, "pending" until then
    value,             \* the ExecutionResult run returned
    cooldown,          \* the number enterHardline returned
    injected,          \* the operation has clicked, escaped or typed
    \* ---- calls around construction and init() of the marker-based engine
    called,            \* the method called last, "none" before any
    raised,            \* the error it raised, "none" if it raised none
    \* ---- one send of a command ------------------------------------
    sent,              \* <<>>, or <<text>> handed to native.sendKeystrokes
    sendResult,        \* the send function called, its command, its result
    \* ---- the FileWatcher -------------------------------------------
    wListeners,        \* FileWatcher.listeners: waiters, oldest first
    wReleased,         \* the waiters released so far, in order of release
    wEvents,           \* the event types the watcher has delivered
    \* ---- the markup parser and the renderers, applied to inputs -------
    mPieces,           \* the pieces the markup string is put together from
    mOptions,          \* the AnsiConverterOptions of the call
    mStep,             \* "input", or the function that was applied
    mOut,              \* what it returned, or that it threw
    \* ---- flush(timeout) of the marker-based engine and its race ---------
    fBranches,         \* the waitForCommandFlush loops that have not ended
    fAt,               \* where the caller of flush stands, "idle" when over
    fCalls,            \* flush calls so far
    fTimerArmed,       \* the call's setTimeout has not fired yet
    didCommandFlush,   \* the two flags of the flush call in progress
    fDidTimeout,
    fRet               \* what the last flush returned, "none" before any

hostVars  == <<log, typed>>
shellVars == <<lastShellFlag, unprocessedLines, didInit, isInHardline,
               uuids, pc, ret>>
pureVars  == <<pstep, pLines, pCommand, pMessage, pSeconds, outPost, outProc,
               outCool, outCoolBuf>>
callVars  == <<runCommand, runTimeout, runRetry>>
flushVars == <<didTimeout, didFlush, flushTimerArmed, waiting>>
runVars   == <<op, rpc, callVars, didReallyTimeout, runTimerArmed, lastCommand,
               isHardlineActive, flushVars, listeners, sends, calls, burst,
               outcome, value, cooldown, injected>>
startVars == <<called, raised>>
sendVars  == <<sent, sendResult>>
watchVars == <<wListeners, wReleased, wEvents>>
markupVars == <<mPieces, mOptions, mStep, mOut>>
raceVars  == <<fBranches, fAt, fCalls, fTimerArmed, didCommandFlush,
               fDidTimeout, fRet>>
auxVars   == <<startVars, sendVars, watchVars, markupVars, raceVars>>
otherVars == <<pureVars, runVars, auxVars>>
vars == <<hostVars, shellVars, pureVars, runVars, auxVars>>

-----------------------------------------------------------------------------
(* Bounds                                                                  *)

\* lines the host may write of its own accord after construction
MaxFree == 3
\* markers randomUUID() may produce
MaxFlags == 2
\* the longest batch of lines handed to the echo matchers
MaxBatch == 4
\* the largest number of seconds a cooldown line carries
MaxSeconds == 12
\* the most lines before, and after, the cooldown line of a response
MaxPad == 1
\* the most lines the host writes to shell.txt beside the echo-based engine
MaxRunLog == 3
\* sendCommand(command) calls of one run
MaxSends == 3
\* run, enterHardline and exitHardline calls
MaxCalls == 2
\* characters of a command handed to a send function
MaxText == 3
\* waitForChange() calls on one FileWatcher
MaxWaiters == 3
\* events the file system delivers to one FileWatcher
MaxEvents == 3
\* pieces of one markup string
MaxPieces == 4

-----------------------------------------------------------------------------
(* Lines and message constants                                             *)

OpenWhite == "<color=#FFFFFFFF>"
OpenGrey  == "<color=#9B9B9BFF>"
OpenRed   == "<color=#FF0000FF>"
OpenGreen == "<color=#1EFF00FF>"
CloseTag  == "</color>"

\* the start tags /<color=#[0-9A-F]{8}>/ matches
ColorStartTags == {OpenWhite, OpenGrey, OpenRed, OpenGreen}

FLUSH_MESSAGE ==
    <<OpenWhite, ">", ">", OpenGrey, "f", "l", "u", "s", "h", CloseTag, CloseTag>>
HARDLINE_ACTIVE_MESSAGE == <<OpenRed, "-hardline active-", CloseTag>>
HARDLINE_DISCONNECTED_MESSAGE == <<OpenRed, "-hardline disconnected-", CloseTag>>

BlankLine == <<>>
LineA == <<"a">>
LineB == <<"b">>

\* what the host may write of its own accord
FreeLines == {LineA, LineB, BlankLine, FLUSH_MESSAGE,
              HARDLINE_ACTIVE_MESSAGE, HARDLINE_DISCONNECTED_MESSAGE}

Undefined == "undefined"
Uuid(n) == "uuid" \o ToString(n)

\* the command placeShellFlag types: `# ${flag}`
FlagCommand(flag) == <<"#", " ", flag>>

\* The host echoes an input line as >>line; the marker comment is no valid
\* command, so two lines of error output follow it.
FollowUp1 == <<"e", "1">>
FollowUp2 == <<"e", "2">>
HostEcho(cmd) == << <<">", ">">> \o cmd, FollowUp1, FollowUp2 >>

-----------------------------------------------------------------------------
(* Helpers of src/unnamed/part_000 (utils)                                 *)

Last(s) == s[Len(s)]
Front(s) == SubSeq(s, 1, Len(s) - 1)

\* a popAssert that never pushes the popped value back
popAssert_AlwaysPops(arr, expected) ==
    IF arr = <<>> THEN arr ELSE Front(arr)

\* popAssert(arr, expected): pop; push the value back unless it is the
\* expected one (nothing to push back from an empty array)
popAssert(arr, expected) ==
    IF arr = <<>> THEN arr
    ELSE IF Last(arr) = expected THEN Front(arr)
    ELSE arr

\* String.prototype.includes, on tokens
Includes(line, tok) == \E i \in 1..Len(line) : line[i] = tok

\* lines.findIndex(line => line.includes(tok)), 0-based; -1 when no line
\* holds the token
FindIndexIncluding(lines, tok) ==
    IF \E i \in 1..Len(lines) : Includes(lines[i], tok)
    THEN (CHOOSE i \in 1..Len(lines) :
             /\ Includes(lines[i], tok)
             /\ \A j \in 1..(i - 1) : ~Includes(lines[j], tok)) - 1
    ELSE -1

\* Array.prototype.slice(k), k 0-based
Slice(lines, k) == SubSeq(lines, k + 1, Len(lines))

Contains(lines, line) == \E i \in 1..Len(lines) : lines[i] = line

-----------------------------------------------------------------------------
(* Text helpers and message constants of the echo matchers                 *)

SUCCESS_MESSAGE == <<OpenGreen, "Success", CloseTag>>
FAILURE_MESSAGE == <<OpenRed, "Failure", CloseTag>>
ACTIVATING_HARDLINE_MESSAGE == <<OpenGrey, "-activating hardline-", CloseTag>>
HARDLINE_RECALIBRATING_MESSAGE ==
    <<OpenRed, ":::TRUST COMMUNICATION:::", CloseTag, " hardline is recalibrating.">>
\* two messages the later constants module adds; only their identity matters
NO_HARDLINES_AVAILABLE_MESSAGE == <<"NO_HARDLINES_AVAILABLE_MESSAGE">>
HARDLINE_ALREADY_ACTIVE_MESSAGE == <<"HARDLINE_ALREADY_ACTIVE_MESSAGE">>

LESS_THAN_ENCODED == "È"
GREATER_THAN_ENCODED == "É"

IsColorTag(tok) == tok \in ColorStartTags \/ tok = CloseTag
NotColorTag(tok) == ~IsColorTag(tok)

\* removeColors: the start tags the regex matches and every </color> go
removeColors(str) == SelectSeq(str, NotColorTag)

\* command.replaceAll('<', LESS_THAN_ENCODED).replaceAll('>', GREATER_THAN_ENCODED)
EncodeAngles(str) ==
    [i \in 1..Len(str) |->
        IF str[i] = "<" THEN LESS_THAN_ENCODED
        ELSE IF str[i] = ">" THEN GREATER_THAN_ENCODED
        ELSE str[i]]

\* text.replaceAll(LESS_THAN_ENCODED, '<').replaceAll(GREATER_THAN_ENCODED, '>')
DecodeAngles(str) ==
    [i \in 1..Len(str) |->
        IF str[i] = LESS_THAN_ENCODED THEN "<"
        ELSE IF str[i] = GREATER_THAN_ENCODED THEN ">"
        ELSE str[i]]

\* `>>${command}`
Prompted(command) == <<">", ">">> \o command

\* String.prototype.startsWith and includes with a string argument
StartsWith(str, prefix) ==
    Len(prefix) <= Len(str) /\ SubSeq(str, 1, Len(prefix)) = prefix
IncludesStr(str, part) ==
    \E i \in 0..(Len(str) - Len(part)) : SubSeq(str, i + 1, i + Len(part)) = part

\* String.prototype.substring(k) and slice(k), k >= 0
Substring(str, k) == SubSeq(str, k + 1, Len(str))

\* Array.prototype.lastIndexOf and findLastIndex, 0-based, -1 when absent
LastIndexOf(lines, line) ==
    IF \E i \in 1..Len(lines) : lines[i] = line
    THEN (CHOOSE i \in 1..Len(lines) :
             lines[i] = line /\ \A j \in (i + 1)..Len(lines) : lines[j] # line) - 1
    ELSE -1

\* lines.findLastIndex(line => removeColors(line) === text)
FindLastIndexStripped(lines, text) ==
    IF \E i \in 1..Len(lines) : removeColors(lines[i]) = text
    THEN (CHOOSE i \in 1..Len(lines) :
             /\ removeColors(lines[i]) = text
             /\ \A j \in (i + 1)..Len(lines) : removeColors(lines[j]) # text) - 1
    ELSE -1

\* lines.findLastIndex(line => line.includes(message))
FindLastIndexIncluding(lines, message) ==
    IF \E i \in 1..Len(lines) : IncludesStr(lines[i], message)
    THEN (CHOOSE i \in 1..Len(lines) :
             /\ IncludesStr(lines[i], message)
             /\ \A j \in (i + 1)..Len(lines) : ~IncludesStr(lines[j], message)) - 1
    ELSE -1

\* Array.prototype.slice(from, to), 0-based, to exclusive
SliceTo(lines, from, to) == SubSeq(lines, from + 1, to)

Digits == <<"0", "1", "2", "3", "4", "5", "6", "7", "8", "9">>
IsDigit(tok) == \E d \in 1..10 : Digits[d] = tok
DigitValue(tok) == (CHOOSE d \in 1..10 : Digits[d] = tok) - 1

\* the decimal digits a number is written with
RECURSIVE Decimal(_)
Decimal(n) ==
    IF n < 10 THEN <<Digits[n + 1]>>
    ELSE Decimal(n \div 10) \o <<Digits[(n % 10) + 1]>>

\* str.split(' ')[0]: everything before the first blank
BeforeFirstBlank(str) ==
    IF \E i \in 1..Len(str) : str[i] = " "
    THEN SubSeq(str, 1, (CHOOSE i \in 1..Len(str) :
                            str[i] = " " /\ \A j \in 1..(i - 1) : str[j] # " ") - 1)
    ELSE str

\* str.replace('s', ''): the first s goes
DropFirstS(str) ==
    IF \E i \in 1..Len(str) : str[i] = "s"
    THEN LET i == CHOOSE i \in 1..Len(str) :
                      str[i] = "s" /\ \A j \in 1..(i - 1) : str[j] # "s"
         IN  SubSeq(str, 1, i - 1) \o SubSeq(str, i + 1, Len(str))
    ELSE str

\* parseInt: the value of the leading run of digits; NaN when there is none
RECURSIVE DigitsValue(_, _)
DigitsValue(str, acc) ==
    IF str = <<>> \/ ~IsDigit(str[1]) THEN acc
    ELSE DigitsValue(Tail(str), 10 * acc + DigitValue(str[1]))

NaN == [nan |-> TRUE, n |-> 0]
Num(n) == [nan |-> FALSE, n |-> n]

ParseInt(str) ==
    IF str = <<>> \/ ~IsDigit(str[1]) THEN NaN ELSE Num(DigitsValue(str, 0))

-----------------------------------------------------------------------------
(* Echo matching and cooldown parsing                                      *)

\* the success flag of #postProcess: looked up in the whole batch
SuccessOf(lines) ==
    IF Contains(lines, SUCCESS_MESSAGE) THEN "true"
    ELSE IF Contains(lines, FAILURE_MESSAGE) THEN "false"
    ELSE "undefined"

\* text.split('\n') of lines.join('\n'): no line gives one blank line
Rejoined(lines) == IF lines = <<>> THEN <<BlankLine>> ELSE lines

\* #postProcess (src/src/handling.ts), without its ANSI rendering
postProcess(command, lines) ==
    LET lastCommandIndex == FindLastIndexStripped(lines, Prompted(command))
        body == IF lastCommandIndex # -1
                THEN Slice(lines, lastCommandIndex + 1) ELSE lines
    IN  [success |-> SuccessOf(lines),
         command |-> IF lastCommandIndex # -1
                     THEN lines[lastCommandIndex + 1] ELSE BlankLine,
         lines   |-> body,
         uncoloredCommand |-> Prompted(command),
         uncoloredLines |->
             [i \in 1..Len(Rejoined(body)) |->
                 DecodeAngles(removeColors(Rejoined(body)[i]))]]

\* processOutput (src/unnamed/part_001) on the lines consumeLines() hands it:
\* lines are shifted off the front until one, stripped and cut by two
\* characters, is the command; a success or failure line right after it is
\* shifted off too.  threw: no line matched.
RECURSIVE ShiftToEcho(_, _)
ShiftToEcho(lines, ofCommand) ==
    IF lines = <<>> THEN [found |-> FALSE, rest |-> <<>>]
    ELSE IF Substring(removeColors(Head(lines)), 2) = ofCommand
         THEN [found |-> TRUE, rest |-> Tail(lines)]
         ELSE ShiftToEcho(Tail(lines), ofCommand)

processOutput(ofCommand, lines) ==
    LET shifted == ShiftToEcho(lines, ofCommand)
        rest    == shifted.rest
        flagged == rest # <<>> /\ Head(rest) \in {SUCCESS_MESSAGE, FAILURE_MESSAGE}
        body    == IF flagged THEN Tail(rest) ELSE rest
    IN  IF ~shifted.found
        THEN [threw |-> TRUE, success |-> "undefined", lines |-> <<>>,
              uncoloredLines |-> <<>>]
        ELSE [threw |-> FALSE,
              success |-> IF ~flagged THEN "undefined"
                          ELSE IF Head(rest) = SUCCESS_MESSAGE THEN "true"
                          ELSE "false",
              lines |-> body,
              uncoloredLines |->
                  [i \in 1..Len(Rejoined(body)) |->
                      DecodeAngles(removeColors(Rejoined(body)[i]))]]

KernelHardline == <<"kernel.hardline">>

\* the seconds of a cooldown message: what follows the message and one more
\* character, up to the next blank, without its first s
SecondsString(cooldownMessage) ==
    DropFirstS(BeforeFirstBlank(Substring(cooldownMessage, 1)))

\* a cooldown without the one second of margin
SecondsToCooldown_NoMargin(secondsString) ==
    LET v == ParseInt(secondsString)
    IN  IF v.nan THEN NaN ELSE Num(v.n * 1000)

\* (parseInt(secondsString) + 1) * 1000
SecondsToCooldown(secondsString) ==
    LET v == ParseInt(secondsString)
    IN  IF v.nan THEN NaN ELSE Num((v.n + 1) * 1000)

\* #getHardlineCooldown (src/src/handling.ts) on result.colored.lines
getHardlineCooldown(lines) ==
    LET notAvailableIndex  == FindLastIndexIncluding(lines, NO_HARDLINES_AVAILABLE_MESSAGE)
        recalibratingIndex == FindLastIndexIncluding(lines, HARDLINE_RECALIBRATING_MESSAGE)
        alreadyActiveIndex == FindLastIndexIncluding(lines, HARDLINE_ALREADY_ACTIVE_MESSAGE)
    IN  IF Contains(lines, ACTIVATING_HARDLINE_MESSAGE) THEN Num(0)
        ELSE IF alreadyActiveIndex # -1 THEN Num(-1)
        ELSE IF notAvailableIndex # -1
             THEN SecondsToCooldown(SecondsString(
                      Substring(lines[notAvailableIndex + 1],
                                Len(NO_HARDLINES_AVAILABLE_MESSAGE))))
        ELSE IF recalibratingIndex # -1
             THEN SecondsToCooldown(SecondsString(
                      Substring(lines[recalibratingIndex + 1],
                                Len(HARDLINE_RECALIBRATING_MESSAGE))))
        ELSE Num(0)

\* getHardlineCooldown (src/unnamed/part_001) on the pending buffer: the
\* first line after the echo of kernel.hardline decides
getHardlineCooldownOfBuffer(buffer) ==
    LET result   == processOutput(KernelHardline, buffer)
        response == IF result.lines = <<>> THEN BlankLine ELSE result.lines[1]
    IN  IF result.threw THEN [threw |-> TRUE, value |-> NaN]
        ELSE IF response # BlankLine /\ response = ACTIVATING_HARDLINE_MESSAGE
             THEN [threw |-> FALSE, value |-> Num(0)]
        ELSE IF response = BlankLine
                \/ ~StartsWith(response, HARDLINE_RECALIBRATING_MESSAGE)
             THEN [threw |-> TRUE, value |-> NaN]
        ELSE [threw |-> FALSE,
              value |-> SecondsToCooldown(
                  DropFirstS(BeforeFirstBlank(
                      Substring(response,
                                Len(HARDLINE_RECALIBRATING_MESSAGE) + 1))))]

-----------------------------------------------------------------------------
(* The functions applied to inputs: EchoSpec and CooldownSpec              *)

\* every sequence over S of at most n elements
SeqsUpTo(S, n) == UNION {[1..k -> S] : k \in 0..n}

NoResult == postProcess(<<>>, <<>>)
NoOutput == [threw |-> FALSE, success |-> "undefined", lines |-> <<>>,
             uncoloredLines |-> <<>>]

\* no function has been applied and there is no input
NothingApplied ==
    /\ pstep = "none"
    /\ pLines = <<>>
    /\ pCommand = <<>>
    /\ pMessage = <<>>
    /\ pSeconds = 0
    /\ outPost = NoResult
    /\ outProc = NoOutput
    /\ outCool = Num(0)
    /\ outCoolBuf = [threw |-> FALSE, value |-> Num(0)]

\* the engine object right after new HmOog()
Constructed ==
    /\ lastShellFlag = Undefined
    /\ unprocessedLines = <<>>
    /\ didInit = FALSE
    /\ isInHardline = FALSE
    /\ uuids = 0
    /\ pc = "new"
    /\ ret = "none"

NoCommand == <<>>

\* the echo-based engine right after new HmOog(): no operation called yet
NotRunning ==
    /\ op = "none"
    /\ rpc = "idle"
    /\ runCommand = <<>>
    /\ runTimeout = 0
    /\ runRetry = FALSE
    /\ didReallyTimeout = FALSE
    /\ runTimerArmed = FALSE
    /\ lastCommand = NoCommand
    /\ isHardlineActive = FALSE
    /\ didTimeout = FALSE
    /\ didFlush = FALSE
    /\ flushTimerArmed = FALSE
    /\ waiting = FALSE
    /\ listeners = 0
    /\ sends = 0
    /\ calls = 0
    /\ burst = 0
    /\ outcome = "pending"
    /\ value = NoResult
    /\ cooldown = Num(0)
    /\ injected = FALSE

\* no send function has been called
NoSend == [by |-> "none", command |-> <<>>, result |-> "none"]

\* the options of a call that names none
DefaultOptions == [colorDepth |-> "TRUE_COLOR", replaceCorruption |-> TRUE]
\* what a function of the markup family hands back: the nodes of parse, the
\* text of a renderer and the colour stack it ended with
NoMarkupOut ==
    [threw |-> FALSE, nodes |-> <<>>, text |-> <<>>, colorStack |-> <<>>]
Threw == [threw |-> TRUE, nodes |-> <<>>, text |-> <<>>, colorStack |-> <<>>]

\* no markup function has been applied and there is no input
NoMarkup ==
    /\ mPieces = <<>>
    /\ mOptions = DefaultOptions
    /\ mStep = "none"
    /\ mOut = NoMarkupOut

\* flush has not been called
NoRace ==
    /\ fBranches = <<>>
    /\ fAt = "idle"
    /\ fCalls = 0
    /\ fTimerArmed = FALSE
    /\ didCommandFlush = FALSE
    /\ fDidTimeout = FALSE
    /\ fRet = "none"

\* nothing called, nothing sent, no waiter
NoAux ==
    /\ NoMarkup
    /\ NoRace
    /\ called = "none"
    /\ raised = "none"
    /\ sent = <<>>
    /\ sendResult = NoSend
    /\ wListeners = <<>>
    /\ wReleased = <<>>
    /\ wEvents = <<>>

\* the line the host echoes a command with
EchoLine(cmd) == <<OpenWhite>> \o Prompted(EncodeAngles(cmd)) \o <<CloseTag>>

Foo == <<"f", "o", "o">>
Bar == <<"b", "a", "r">>
\* a command with literal angle brackets
Angled == <<"<", "a", ">">>
EchoCommands == {Foo, Bar, Angled}
Noise == <<"n", "o", "i", "s", "e">>
\* noise, the coloured echo of foo, the plain echo of bar, a line that is
\* foo after two other characters, a result line, the success and failure
\* lines, and the coloured echo of the command with angle brackets
EchoLines ==
    {Noise, EchoLine(Foo), Prompted(Bar), <<"x", "x">> \o Foo, LineA,
     SUCCESS_MESSAGE, FAILURE_MESSAGE, EchoLine(Angled)}

callPostProcess ==
    /\ pstep = "input"
    /\ pstep' = "postProcess"
    /\ outPost' = postProcess(pCommand, pLines)
    /\ UNCHANGED <<pLines, pCommand, pMessage, pSeconds, outProc, outCool,
                   outCoolBuf>>
    /\ UNCHANGED <<hostVars, shellVars, runVars, auxVars>>

callProcessOutput ==
    /\ pstep = "input"
    /\ pstep' = "processOutput"
    /\ outProc' = processOutput(pCommand, pLines)
    /\ UNCHANGED <<pLines, pCommand, pMessage, pSeconds, outPost, outCool,
                   outCoolBuf>>
    /\ UNCHANGED <<hostVars, shellVars, runVars, auxVars>>

EchoInit ==
    /\ log = <<>>
    /\ typed = <<>>
    /\ Constructed
    /\ pstep = "input"
    /\ pLines \in SeqsUpTo(EchoLines, MaxBatch)
    /\ pCommand \in EchoCommands
    /\ pMessage = <<>>
    /\ pSeconds = 0
    /\ outPost = NoResult
    /\ outProc = NoOutput
    /\ outCool = Num(0)
    /\ outCoolBuf = [threw |-> FALSE, value |-> Num(0)]
    /\ NotRunning
    /\ NoAux

EchoNext ==
    \/ callPostProcess
    \/ callProcessOutput

EchoSpec == EchoInit /\ [][EchoNext]_vars

\* the cooldown-style rejection line: the message, a blank, the seconds left
CooldownLine(message, n) ==
    message \o <<" ">> \o Decimal(n) \o <<"s", " ", "l", "e", "f", "t">>

CooldownMessages ==
    {HARDLINE_RECALIBRATING_MESSAGE, NO_HARDLINES_AVAILABLE_MESSAGE}

\* lines a response may hold besides the rejection line
PadLines ==
    {LineA, EchoLine(KernelHardline), ACTIVATING_HARDLINE_MESSAGE,
     HARDLINE_ALREADY_ACTIVE_MESSAGE}

callGetHardlineCooldown ==
    /\ pstep = "input"
    /\ pstep' = "getHardlineCooldown"
    /\ outPost' = postProcess(KernelHardline, pLines)
    /\ outCool' = getHardlineCooldown(outPost'.lines)
    /\ UNCHANGED <<pLines, pCommand, pMessage, pSeconds, outProc, outCoolBuf>>
    /\ UNCHANGED <<hostVars, shellVars, runVars, auxVars>>

callGetHardlineCooldownOfBuffer ==
    /\ pstep = "input"
    /\ pstep' = "getHardlineCooldownOfBuffer"
    /\ outCoolBuf' = getHardlineCooldownOfBuffer(pLines)
    /\ UNCHANGED <<pLines, pCommand, pMessage, pSeconds, outPost, outProc,
                   outCool>>
    /\ UNCHANGED <<hostVars, shellVars, runVars, auxVars>>

CooldownInit ==
    /\ log = <<>>
    /\ typed = <<>>
    /\ Constructed
    /\ pstep = "input"
    /\ pCommand = KernelHardline
    /\ pMessage \in CooldownMessages
    /\ pSeconds \in 0..MaxSeconds
    /\ \E before, after \in SeqsUpTo(PadLines, MaxPad) :
          pLines = before \o <<CooldownLine(pMessage, pSeconds)>> \o after
    /\ outPost = NoResult
    /\ outProc = NoOutput
    /\ outCool = Num(0)
    /\ outCoolBuf = [threw |-> FALSE, value |-> Num(0)]
    /\ NotRunning
    /\ NoAux

CooldownNext ==
    \/ callGetHardlineCooldown
    \/ callGetHardlineCooldownOfBuffer

CooldownSpec == CooldownInit /\ [][CooldownNext]_vars

-----------------------------------------------------------------------------
(* The marker-based engine: src/unnamed/part_001                           *)

\* a removeOldLines that tolerates a missing marker at any time
removeOldLinesThrows_Never(lines) == FALSE

\* removeOldLines throws exactly when a marker is set, init has completed
\* and no line holds the marker
removeOldLinesThrows(lines) ==
    /\ lastShellFlag # Undefined
    /\ didInit
    /\ FindIndexIncluding(lines, lastShellFlag) = -1

\* a removeOldLines that skips the marker line and one line after it
removeOldLines_SkipsTwo(lines) ==
    IF lastShellFlag = Undefined THEN lines
    ELSE Slice(lines, FindIndexIncluding(lines, lastShellFlag) + 2)

\* removeOldLines: everything from the third line after the marker line
removeOldLines(lines) ==
    IF lastShellFlag = Undefined THEN lines
    ELSE LET lastLineIndex == FindIndexIncluding(lines, lastShellFlag)
         IN  Slice(lines, lastLineIndex + 3)

\* a classification that takes every non-empty suffix for a command flush
FlushReasonOf_AlwaysCommand(newLines) == "COMMAND"

FlushReasonOf(newLines) ==
    IF Last(newLines) = FLUSH_MESSAGE THEN "COMMAND" ELSE "AUTO"

\* the hardline flag after the two indexOf tests of updateShell
HardlineAfter(newLines, before) ==
    IF Contains(newLines, HARDLINE_DISCONNECTED_MESSAGE) THEN FALSE
    ELSE IF Contains(newLines, HARDLINE_ACTIVE_MESSAGE) THEN TRUE
    ELSE before

NotHardlineLine(line) ==
    line # HARDLINE_ACTIVE_MESSAGE /\ line # HARDLINE_DISCONNECTED_MESSAGE

\* a command flush that forgets to pop the sentinel and the blank line
Delivered_KeepsSentinel(newLines) == SelectSeq(newLines, NotHardlineLine)

\* the lines updateShell pushes on a command flush
Delivered(newLines) ==
    LET kept    == SelectSeq(newLines, NotHardlineLine)
        popped  == popAssert(kept, FLUSH_MESSAGE)
    IN  IF Len(popped) > 0 THEN popAssert(popped, BlankLine) ELSE popped

\* updateShell from the read to the first suspension inside placeShellFlag,
\* as the outcome it has on a snapshot `lines` of the log:
\*   ret     what it returns ("AUTO", "COMMAND") or "error" when it throws
\*   seen    the lines it took as new
\*   hard    isInHardline afterwards
\*   buffer  unprocessedLines afterwards
\*   places  whether placeShellFlag runs
updateShell(lines) ==
    IF removeOldLinesThrows(lines)
    THEN [ret |-> "error", seen |-> <<>>, hard |-> isInHardline,
          buffer |-> unprocessedLines, places |-> FALSE]
    ELSE LET newLines == removeOldLines(lines) IN
         IF Len(newLines) = 0
         THEN [ret |-> "AUTO", seen |-> newLines, hard |-> isInHardline,
               buffer |-> unprocessedLines, places |-> FALSE]
         ELSE IF FlushReasonOf(newLines) = "AUTO"
         THEN [ret |-> "AUTO", seen |-> newLines,
               hard |-> HardlineAfter(newLines, isInHardline),
               buffer |-> unprocessedLines, places |-> FALSE]
         ELSE [ret |-> "COMMAND", seen |-> newLines,
               hard |-> HardlineAfter(newLines, isInHardline),
               buffer |-> unprocessedLines \o Delivered(newLines),
               places |-> TRUE]

\* a placeShellFlag that does not draw a new token
NewFlag_Reuse ==
    /\ uuids < MaxFlags
    /\ uuids' = uuids + 1
    /\ lastShellFlag' = Uuid(1)

\* placeShellFlag, first half: this.lastShellFlag = randomUUID()
NewFlag ==
    /\ uuids < MaxFlags
    /\ uuids' = uuids + 1
    /\ lastShellFlag' = Uuid(uuids + 1)

\* placeShellFlag, second half: after 500 ms, sendRaw(`# ${flag}`), whose
\* result (native.sendKeystrokes may refuse) is not looked at
TypeFlag ==
    \E ok \in BOOLEAN :
        typed' = IF ok THEN Append(typed, FlagCommand(lastShellFlag)) ELSE typed

\* consumeLines(), the public method
consumeLines ==
    /\ pc = "idle"
    /\ unprocessedLines' = <<>>
    /\ UNCHANGED <<hostVars, lastShellFlag, didInit, isInHardline, uuids, pc,
                   ret>>
    /\ UNCHANGED otherVars

\* init(): the first read of the log, then consumeLines() and didInit
init ==
    /\ pc = "new"
    /\ LET o == updateShell(log) IN
       /\ ret' = o.ret
       /\ isInHardline' = o.hard
       /\ IF o.places
          THEN /\ NewFlag
               /\ unprocessedLines' = o.buffer
               /\ pc' = "initFlag"
               /\ UNCHANGED didInit
          ELSE /\ unprocessedLines' = <<>>
               /\ didInit' = (o.ret # "error")
               /\ pc' = IF o.ret = "error" THEN "new" ELSE "idle"
               /\ UNCHANGED <<lastShellFlag, uuids>>
    /\ UNCHANGED <<hostVars, otherVars>>

\* init() resumed: the marker is typed, the old output discarded
initPlaceShellFlag ==
    /\ pc = "initFlag"
    /\ TypeFlag
    /\ unprocessedLines' = <<>>
    /\ didInit' = TRUE
    /\ pc' = "idle"
    /\ UNCHANGED <<log, lastShellFlag, isInHardline, uuids, ret, otherVars>>

\* waitForFlush(): a change notification, then updateShell
waitForFlush ==
    /\ pc = "idle"
    /\ LET o == updateShell(log) IN
       /\ ret' = o.ret
       /\ isInHardline' = o.hard
       /\ unprocessedLines' = o.buffer
       /\ IF o.places
          THEN NewFlag /\ pc' = "flag"
          ELSE UNCHANGED <<lastShellFlag, uuids, pc>>
    /\ UNCHANGED <<hostVars, didInit, otherVars>>

\* waitForFlush() resumed: the marker is typed
placeShellFlag ==
    /\ pc = "flag"
    /\ TypeFlag
    /\ pc' = "idle"
    /\ UNCHANGED <<log, lastShellFlag, unprocessedLines, didInit,
                   isInHardline, uuids, ret, otherVars>>

-----------------------------------------------------------------------------
(* The console host                                                        *)

IsFree(line) == line \in FreeLines
\* the lines of the log the host wrote of its own accord, the one line of
\* the log at construction not counted
FreeCount == Len(SelectSeq(log, IsFree)) - 1

\* the host writes a line of its own
HostAppend ==
    /\ FreeCount < MaxFree
    /\ \E line \in FreeLines : log' = Append(log, line)
    /\ UNCHANGED <<typed, shellVars, otherVars>>

\* the host takes the next injected line and echoes it
HostEchoTyped ==
    /\ typed # <<>>
    /\ log' = log \o HostEcho(Head(typed))
    /\ typed' = Tail(typed)
    /\ UNCHANGED <<shellVars, otherVars>>

-----------------------------------------------------------------------------
(* The marker-based engine with its host                                   *)

\* At construction the log holds one line: the empty file splits into one
\* blank line, and anything longer is reached by the host appending before
\* init() is called.
Init ==
    /\ log \in {<<line>> : line \in FreeLines}
    /\ typed = <<>>
    /\ Constructed
    /\ NothingApplied
    /\ NotRunning
    /\ NoAux

Next ==
    \/ init
    \/ initPlaceShellFlag
    \/ waitForFlush
    \/ placeShellFlag
    \/ consumeLines
    \/ HostAppend
    \/ HostEchoTyped

Spec == Init /\ [][Next]_vars

-----------------------------------------------------------------------------
(* flush(timeout) of the marker-based engine: the caller's keepalive loop  *)
(* races a waitForCommandFlush loop it started and a timer                 *)

\* flush calls
MaxFlushes == 2
\* no timer, or a timer
FlushTimeouts == {0, 3000}

RemoveAt(seq, b) == SubSeq(seq, 1, b - 1) \o SubSeq(seq, b + 1, Len(seq))

\* a waitForCommandFlush loop of flush call `call`, inside waitForFlush and
\* awaiting fileWatcher.waitForChange() since the log had `seen` lines
Waiting(call, seen) == [call |-> call, at |-> "waiting", seen |-> seen]

\* flush(timeout) up to its loop: assertDidInit, the waitForCommandFlush
\* loop started and not awaited, the timer set, sendRaw('flush'), whose
\* keystrokes the host answers in its own time
flushCalled ==
    /\ pc = "idle"
    /\ didInit
    /\ fAt = "idle"
    /\ fCalls < MaxFlushes
    /\ fCalls' = fCalls + 1
    /\ fBranches' = Append(fBranches, Waiting(fCalls + 1, Len(log)))
    /\ didCommandFlush' = FALSE
    /\ fDidTimeout' = FALSE
    /\ \E timeout \in FlushTimeouts : fTimerArmed' = (timeout > 0)
    /\ fAt' = "loop"
    /\ fRet' = "pending"
    /\ UNCHANGED <<hostVars, shellVars, pureVars, runVars>>
    /\ UNCHANGED <<startVars, sendVars, watchVars, markupVars>>

\* setTimeout(() => didTimeout = true, timeout)
flushTimeout ==
    /\ fTimerArmed
    /\ fAt \in {"loop", "settle"}
    /\ fDidTimeout' = TRUE
    /\ fTimerArmed' = FALSE
    /\ UNCHANGED <<fBranches, fAt, fCalls, didCommandFlush, fRet>>
    /\ UNCHANGED <<hostVars, shellVars, pureVars, runVars>>
    /\ UNCHANGED <<startVars, sendVars, watchVars, markupVars>>

\* while (!didCommandFlush && !didTimeout) ends
flushLoopEnds ==
    /\ fAt = "loop"
    /\ didCommandFlush \/ fDidTimeout
    /\ fAt' = "settle"
    /\ UNCHANGED <<fBranches, fCalls, fTimerArmed, didCommandFlush,
                   fDidTimeout, fRet>>
    /\ UNCHANGED <<hostVars, shellVars, pureVars, runVars>>
    /\ UNCHANGED <<startVars, sendVars, watchVars, markupVars>>

\* after waitMs(500): return !didCommandFlush && didTimeout
flushReturns ==
    /\ fAt = "settle"
    /\ fRet' = IF ~didCommandFlush /\ fDidTimeout THEN "timeout" ELSE "flushed"
    /\ fAt' = "idle"
    /\ fTimerArmed' = FALSE
    /\ UNCHANGED <<fBranches, fCalls, didCommandFlush, fDidTimeout>>
    /\ UNCHANGED <<hostVars, shellVars, pureVars, runVars>>
    /\ UNCHANGED <<startVars, sendVars, watchVars, markupVars>>

\* waitForFlush resumed in loop b: the file changed, updateShell reads it.
\* A throw ends the loop, a command flush goes on to placeShellFlag, any
\* other read sends the loop round to waitForChange again.
branchUpdateShell(b) ==
    /\ fBranches[b].at = "waiting"
    /\ Len(log) > fBranches[b].seen
    /\ LET o == updateShell(log) IN
       /\ ret' = o.ret
       /\ isInHardline' = o.hard
       /\ unprocessedLines' = o.buffer
       /\ IF o.places
          THEN /\ NewFlag
               /\ fBranches' = [fBranches EXCEPT ![b].at = "flag"]
          ELSE /\ UNCHANGED <<lastShellFlag, uuids>>
               /\ fBranches' = IF o.ret = "error" THEN RemoveAt(fBranches, b)
                                ELSE [fBranches EXCEPT ![b].seen = Len(log)]
    /\ UNCHANGED <<hostVars, didInit, pc>>
    /\ UNCHANGED <<fAt, fCalls, fTimerArmed, didCommandFlush, fDidTimeout,
                   fRet>>
    /\ UNCHANGED <<pureVars, runVars, startVars, sendVars, watchVars,
                   markupVars>>

\* placeShellFlag resumed in loop b: the marker is typed, waitForFlush
\* returns COMMAND, the loop ends and its then-callback sets the
\* didCommandFlush of its own flush call
branchPlaceShellFlag(b) ==
    /\ fBranches[b].at = "flag"
    /\ TypeFlag
    /\ fBranches' = RemoveAt(fBranches, b)
    /\ didCommandFlush' =
          IF fBranches[b].call = fCalls /\ fAt # "idle" THEN TRUE
          ELSE didCommandFlush
    /\ UNCHANGED <<log, shellVars>>
    /\ UNCHANGED <<fAt, fCalls, fTimerArmed, fDidTimeout, fRet>>
    /\ UNCHANGED <<pureVars, runVars, startVars, sendVars, watchVars,
                   markupVars>>

\* what the host writes while flush commands are answered
RaceLines == {LineA, FLUSH_MESSAGE}

\* the host writes a line of its own
raceHostAppend ==
    /\ FreeCount < MaxFree
    /\ \E line \in RaceLines : log' = Append(log, line)
    /\ UNCHANGED <<typed, shellVars, otherVars>>

\* the file at construction is empty, or ends in the sentinel line
RaceInit ==
    /\ log \in {<<BlankLine>>, <<FLUSH_MESSAGE>>}
    /\ typed = <<>>
    /\ Constructed
    /\ NothingApplied
    /\ NotRunning
    /\ NoAux

RaceNext ==
    \/ init
    \/ initPlaceShellFlag
    \/ consumeLines
    \/ raceHostAppend
    \/ HostEchoTyped
    \/ flushCalled
    \/ flushTimeout
    \/ flushLoopEnds
    \/ flushReturns
    \/ \E b \in 1..Len(fBranches) : branchUpdateShell(b)
    \/ \E b \in 1..Len(fBranches) : branchPlaceShellFlag(b)

RaceSpec == RaceInit /\ [][RaceNext]_vars

-----------------------------------------------------------------------------
(* The echo-based engine: run, #flush, #readShell, enterHardline,          *)
(* exitHardline of src/src/handling.ts, with the host and the timers       *)

RunCommands == {<<"c">>}
\* no budget, or a budget
RunTimeouts == {0, 3000}
ExitCommand == <<"kernel.hardline { dc: true }">>
HardlineBursts == 12

\* what the host may write to shell.txt during, and after, operation o
HostLinesOf(o) ==
    IF o = "run"
    THEN {EchoLine(c) : c \in RunCommands} \cup {FLUSH_MESSAGE, LineA}
    ELSE IF o = "enterHardline"
    THEN {CooldownLine(HARDLINE_RECALIBRATING_MESSAGE, 12),
          HARDLINE_ALREADY_ACTIVE_MESSAGE, HARDLINE_DISCONNECTED_MESSAGE}
    ELSE IF o = "exitHardline"
    THEN {EchoLine(ExitCommand), HARDLINE_DISCONNECTED_MESSAGE, LineA}
    ELSE {LineA}

Thrown == {"SendFailed", "ReadFailed", "TypeError", "InitFailed"}

\* !this.lastCommand: undefined or the empty string
NoLastCommand == lastCommand = NoCommand \/ lastCommand[1] = <<>>

\* #readShell on the lines of the file: null, or the lines it returns, and
\* the hardline flag it leaves
readShell(lines) ==
    LET lastHardlineDisconnectedIndex ==
            LastIndexOf(lines, HARDLINE_DISCONNECTED_MESSAGE)
        lastHardlineActiveIndex == LastIndexOf(lines, HARDLINE_ACTIVE_MESSAGE)
        hard == IF lastHardlineDisconnectedIndex > lastHardlineActiveIndex
                THEN FALSE ELSE isHardlineActive
        enteredCommand == EncodeAngles(lastCommand[1])
        lastCommandIndex ==
            FindLastIndexStripped(lines, Prompted(enteredCommand))
        lastFlushIndex == LastIndexOf(lines, FLUSH_MESSAGE)
    IN  IF NoLastCommand
        THEN [null |-> FALSE, lines |-> lines, hard |-> hard]
        ELSE IF lastCommandIndex = -1
        THEN [null |-> TRUE, lines |-> <<>>, hard |-> hard]
        ELSE IF lastFlushIndex < lastCommandIndex
        THEN [null |-> TRUE, lines |-> <<>>, hard |-> hard]
        ELSE [null |-> FALSE,
              lines |-> SliceTo(lines, lastCommandIndex, lastFlushIndex),
              hard |-> hard]

\* what #flush hands back once its loop has ended: null after a timeout,
\* else what #readShell finds in the file
Flushed ==
    IF didTimeout
    THEN [null |-> TRUE, lines |-> <<>>, hard |-> isHardlineActive]
    ELSE readShell(Rejoined(log))

\* a run that retries whatever retry says
AfterAttempt_AlwaysRetry(noData, reallyTimedOut, retry) ==
    IF ~noData THEN "result"
    ELSE IF reallyTimedOut THEN "null"
    ELSE "loop"

\* a run that never retries
AfterAttempt_NeverRetry(noData, reallyTimedOut, retry) ==
    IF ~noData THEN "result" ELSE "null"

\* the tail of run's loop body: break, return null, or go round again
AfterAttempt(noData, reallyTimedOut, retry) ==
    IF ~noData THEN "result"
    ELSE IF reallyTimedOut THEN "null"
    ELSE IF ~retry THEN "null"
    ELSE "loop"

\* the operation is over: its timers and flags are dead
Over(how) ==
    /\ rpc' = "idle"
    /\ outcome' = how
    /\ runTimerArmed' = FALSE
    /\ didTimeout' = FALSE
    /\ didFlush' = FALSE
    /\ flushTimerArmed' = FALSE
    /\ waiting' = FALSE

\* run(command, timeout, retry) up to the first waitMs(500)
run ==
    /\ rpc = "idle"
    /\ calls < MaxCalls
    /\ \E c \in RunCommands, t \in RunTimeouts, r \in BOOLEAN :
          /\ runCommand' = c
          /\ runTimeout' = t
          /\ runRetry' = r
          /\ runTimerArmed' = (t # 0)
    /\ op' = "run"
    /\ rpc' = "loop"
    /\ didReallyTimeout' = FALSE
    /\ sends' = 0
    /\ calls' = calls + 1
    /\ outcome' = "pending"
    /\ value' = NoResult
    /\ injected' = TRUE
    /\ UNCHANGED <<lastCommand, isHardlineActive, flushVars, listeners, burst,
                   cooldown>>
    /\ UNCHANGED <<hostVars, shellVars, pureVars, auxVars>>

\* run: sendCommand(command); a refused injection throws
runSendCommand ==
    /\ op = "run"
    /\ rpc = "loop"
    /\ sends < MaxSends
    /\ sends' = sends + 1
    /\ \E ok \in BOOLEAN :
          IF ok
          THEN /\ rpc' = "sent"
               /\ UNCHANGED <<outcome, runTimerArmed, flushVars>>
          ELSE Over("SendFailed")
    /\ UNCHANGED <<op, callVars, didReallyTimeout, lastCommand,
                   isHardlineActive, listeners, calls, burst, value, cooldown,
                   injected>>
    /\ UNCHANGED <<hostVars, shellVars, pureVars, auxVars>>

\* enterHardline() up to its #flush(3000)
enterHardline ==
    /\ rpc = "idle"
    /\ calls < MaxCalls
    /\ op' = "enterHardline"
    /\ rpc' = "sent"
    /\ runCommand' = KernelHardline
    /\ runTimeout' = 3000
    /\ runRetry' = FALSE
    /\ didReallyTimeout' = FALSE
    /\ sends' = 0
    /\ calls' = calls + 1
    /\ burst' = 0
    /\ outcome' = "pending"
    /\ value' = NoResult
    /\ injected' = TRUE
    /\ UNCHANGED <<runTimerArmed, lastCommand, isHardlineActive, flushVars,
                   listeners, cooldown>>
    /\ UNCHANGED <<hostVars, shellVars, pureVars, auxVars>>

\* exitHardline() up to its #flush()
exitHardline ==
    /\ rpc = "idle"
    /\ calls < MaxCalls
    /\ op' = "exitHardline"
    /\ rpc' = "sent"
    /\ runCommand' = ExitCommand
    /\ runTimeout' = 0
    /\ runRetry' = FALSE
    /\ didReallyTimeout' = FALSE
    /\ sends' = 0
    /\ calls' = calls + 1
    /\ outcome' = "pending"
    /\ value' = NoResult
    /\ injected' = TRUE
    /\ UNCHANGED <<runTimerArmed, lastCommand, isHardlineActive, flushVars,
                   listeners, burst, cooldown>>
    /\ UNCHANGED <<hostVars, shellVars, pureVars, auxVars>>

\* #flush(timeout) up to its loop; run sets lastCommand right before it
flush ==
    /\ rpc = "sent"
    /\ rpc' = "flushing"
    /\ lastCommand' = IF op = "run" THEN <<runCommand>> ELSE lastCommand
    /\ didTimeout' = FALSE
    /\ didFlush' = FALSE
    /\ flushTimerArmed' = TRUE
    /\ waiting' = TRUE
    /\ listeners' = listeners + 1
    /\ UNCHANGED <<op, callVars, didReallyTimeout, runTimerArmed,
                   isHardlineActive, sends, calls, burst, outcome, value,
                   cooldown, injected>>
    /\ UNCHANGED <<hostVars, shellVars, pureVars, auxVars>>

\* the timer of run fires
runTimer ==
    /\ runTimerArmed
    /\ runTimerArmed' = FALSE
    /\ didReallyTimeout' = TRUE
    /\ UNCHANGED <<op, rpc, callVars, lastCommand, isHardlineActive, flushVars,
                   listeners, sends, calls, burst, outcome, value, cooldown,
                   injected>>
    /\ UNCHANGED <<hostVars, shellVars, pureVars, auxVars>>

\* the timer of #flush fires; inside run it was armed after run's own timer
\* and for the same time, so it fires after it
flushTimer ==
    /\ rpc = "flushing"
    /\ flushTimerArmed
    /\ ~(op = "run" /\ runTimerArmed)
    /\ flushTimerArmed' = FALSE
    /\ didTimeout' = TRUE
    /\ UNCHANGED <<op, rpc, callVars, didReallyTimeout, runTimerArmed,
                   lastCommand, isHardlineActive, didFlush, waiting, listeners,
                   sends, calls, burst, outcome, value, cooldown, injected>>
    /\ UNCHANGED <<hostVars, shellVars, pureVars, auxVars>>

\* the host writes a line; the FileWatcher sees the change and calls every
\* resolver it holds
shellChanges ==
    /\ Len(log) < MaxRunLog
    /\ \E line \in HostLinesOf(op) : log' = Append(log, line)
    /\ listeners' = 0
    /\ waiting' = FALSE
    /\ didFlush' = (didFlush \/ waiting)
    /\ UNCHANGED <<op, rpc, callVars, didReallyTimeout, runTimerArmed,
                   lastCommand, isHardlineActive, didTimeout, flushTimerArmed,
                   sends, calls, burst, outcome, value, cooldown, injected>>
    /\ UNCHANGED <<typed, shellVars, pureVars, auxVars>>

\* #flush has seen the change, and readFile rejects: nothing on the way up
\* catches it
readFileFails ==
    /\ rpc = "flushing"
    /\ didFlush
    /\ ~didTimeout
    /\ Over("ReadFailed")
    /\ UNCHANGED <<op, callVars, didReallyTimeout, lastCommand,
                   isHardlineActive, listeners, sends, calls, burst, value,
                   cooldown, injected>>
    /\ UNCHANGED <<hostVars, shellVars, pureVars, auxVars>>

\* run from the return of #flush to its own return or its next waitMs(500)
runResumes ==
    /\ op = "run"
    /\ rpc = "flushing"
    /\ didTimeout \/ didFlush
    /\ LET data == Flushed
           then == AfterAttempt(data.null, didReallyTimeout, runRetry)
       IN  /\ lastCommand' = NoCommand
           /\ isHardlineActive' = data.hard
           /\ IF then = "loop"
              THEN /\ rpc' = "loop"
                   /\ didTimeout' = FALSE
                   /\ didFlush' = FALSE
                   /\ flushTimerArmed' = FALSE
                   /\ waiting' = FALSE
                   /\ UNCHANGED <<outcome, runTimerArmed, value>>
              ELSE /\ Over(then)
                   /\ value' = IF then = "result"
                               THEN postProcess(runCommand, data.lines)
                               ELSE NoResult
    /\ UNCHANGED <<op, callVars, didReallyTimeout, listeners, sends, calls,
                   burst, cooldown, injected>>
    /\ UNCHANGED <<hostVars, shellVars, pureVars, auxVars>>

\* an enterHardline that activates whatever the response says
AfterResponse_AlwaysActivate(noLines, c) == "activate"

\* an enterHardline that takes the missing response for a refusal
AfterResponse_NullReturns(noLines, c) ==
    IF noLines THEN "zero"
    ELSE IF ~c.nan /\ c.n < 0 THEN "zero"
    ELSE IF ~c.nan /\ c.n > 0 THEN "cooldown"
    ELSE "activate"

\* enterHardline after #flush(3000): return 0, return the cooldown, or go on
\* to the activation sequence (also when there are no lines, and when the
\* cooldown is 0 or NaN)
AfterResponse(noLines, c) ==
    IF noLines THEN "activate"
    ELSE IF ~c.nan /\ c.n < 0 THEN "zero"
    ELSE IF ~c.nan /\ c.n > 0 THEN "cooldown"
    ELSE "activate"

\* enterHardline from the return of #flush(3000) to its return or to the
\* ten seconds it waits before the filler keystrokes
enterHardlineResumes ==
    /\ op = "enterHardline"
    /\ rpc = "flushing"
    /\ didTimeout \/ didFlush
    /\ LET lines == Flushed
           c == IF lines.null THEN Num(0)
                ELSE getHardlineCooldown(
                         postProcess(KernelHardline, lines.lines).lines)
           then == AfterResponse(lines.null, c)
       IN  /\ isHardlineActive' = lines.hard
           /\ IF then = "zero"
              THEN Over("number") /\ cooldown' = Num(0)
              ELSE IF then = "cooldown"
              THEN Over("number") /\ cooldown' = c
              ELSE /\ rpc' = "settling"
                   /\ didTimeout' = FALSE
                   /\ didFlush' = FALSE
                   /\ flushTimerArmed' = FALSE
                   /\ waiting' = FALSE
                   /\ UNCHANGED <<outcome, runTimerArmed, cooldown>>
    /\ UNCHANGED <<op, callVars, didReallyTimeout, lastCommand, listeners,
                   sends, calls, burst, value, injected>>
    /\ UNCHANGED <<hostVars, shellVars, pureVars, auxVars>>

\* enterHardline: one sendCommand('0123456789') of the twelve, the first
\* after the ten seconds, the last followed by the fifteen seconds
hardlineFiller ==
    /\ rpc \in {"settling", "filling"}
    /\ burst < HardlineBursts
    /\ burst' = burst + 1
    /\ rpc' = IF burst + 1 = HardlineBursts THEN "resting" ELSE "filling"
    /\ UNCHANGED <<op, callVars, didReallyTimeout, runTimerArmed,
                   lastCommand, isHardlineActive, flushVars, listeners, sends,
                   calls, outcome, value, cooldown, injected>>
    /\ UNCHANGED <<hostVars, shellVars, pureVars, auxVars>>

\* enterHardline: after the fifteen seconds the final newline, the mode, and
\* the return
hardlineActive ==
    /\ rpc = "resting"
    /\ isHardlineActive' = TRUE
    /\ Over("number")
    /\ cooldown' = Num(0)
    /\ UNCHANGED <<op, callVars, didReallyTimeout, lastCommand, listeners,
                   sends, calls, burst, value, injected>>
    /\ UNCHANGED <<hostVars, shellVars, pureVars, auxVars>>

\* exitHardline from the return of #flush() to its own return:
\* #postProcess(exitCommand, data!) reads lines.indexOf of what it is given
exitHardlineResumes ==
    /\ op = "exitHardline"
    /\ rpc = "flushing"
    /\ didTimeout \/ didFlush
    /\ LET data == Flushed
           result == postProcess(ExitCommand, data.lines)
           success == \E i \in 1..Len(result.lines) :
                         IncludesStr(result.lines[i],
                                     HARDLINE_DISCONNECTED_MESSAGE)
       IN  IF data.null
           THEN /\ Over("TypeError")
                /\ isHardlineActive' = data.hard
           ELSE /\ Over(IF success THEN "true" ELSE "false")
                /\ isHardlineActive' = IF success THEN FALSE ELSE data.hard
    /\ UNCHANGED <<op, callVars, didReallyTimeout, lastCommand, listeners,
                   sends, calls, burst, value, cooldown, injected>>
    /\ UNCHANGED <<hostVars, shellVars, pureVars, auxVars>>

\* an init that clicks and escapes before it looks at native.init()
InjectedByInit_Always(ok) == TRUE

\* whether init() goes on to the mouse click, the escape and #flush
InjectedByInit(ok) == ok

\* init() of the echo-based engine, up to its #flush(): native.init() may
\* refuse
initHmOog ==
    /\ rpc = "idle"
    /\ calls < MaxCalls
    /\ op' = "init"
    /\ runCommand' = <<>>
    /\ runTimeout' = 0
    /\ runRetry' = FALSE
    /\ didReallyTimeout' = FALSE
    /\ sends' = 0
    /\ calls' = calls + 1
    /\ value' = NoResult
    /\ \E ok \in BOOLEAN :
          /\ injected' = InjectedByInit(ok)
          /\ IF ok
             THEN /\ rpc' = "sent"
                  /\ outcome' = "pending"
                  /\ UNCHANGED <<runTimerArmed, flushVars>>
             ELSE Over("InitFailed")
    /\ UNCHANGED <<lastCommand, isHardlineActive, listeners, burst, cooldown>>
    /\ UNCHANGED <<hostVars, shellVars, pureVars, auxVars>>

\* init() after #flush(): what #flush handed back is not looked at
initResumes ==
    /\ op = "init"
    /\ rpc = "flushing"
    /\ didTimeout \/ didFlush
    /\ isHardlineActive' = Flushed.hard
    /\ Over("void")
    /\ UNCHANGED <<op, callVars, didReallyTimeout, lastCommand, listeners,
                   sends, calls, burst, value, cooldown, injected>>
    /\ UNCHANGED <<hostVars, shellVars, pureVars, auxVars>>

RunInit ==
    /\ log = <<>>
    /\ typed = <<>>
    /\ Constructed
    /\ NothingApplied
    /\ NotRunning
    /\ NoAux

RunNext ==
    \/ run
    \/ runSendCommand
    \/ enterHardline
    \/ exitHardline
    \/ flush
    \/ runTimer
    \/ flushTimer
    \/ shellChanges
    \/ readFileFails
    \/ runResumes
    \/ enterHardlineResumes
    \/ hardlineFiller
    \/ hardlineActive
    \/ exitHardlineResumes
    \/ initHmOog
    \/ initResumes

RunSpec == RunInit /\ [][RunNext]_vars

-----------------------------------------------------------------------------
(* run under fair scheduling.  The two counters of the model, the sends of *)
(* a run and the resolvers the FileWatcher holds, stop counting at their   *)
(* bounds, so that a run which goes round its loop for ever is a cycle.    *)

\* run: sendCommand(command) once the sends are no longer counted
runSendCommandUncounted ==
    /\ op = "run"
    /\ rpc = "loop"
    /\ sends = MaxSends
    /\ \E ok \in BOOLEAN :
          IF ok
          THEN /\ rpc' = "sent"
               /\ UNCHANGED <<outcome, runTimerArmed, flushVars>>
          ELSE Over("SendFailed")
    /\ UNCHANGED <<op, callVars, didReallyTimeout, lastCommand,
                   isHardlineActive, listeners, sends, calls, burst, value,
                   cooldown, injected>>
    /\ UNCHANGED <<hostVars, shellVars, pureVars, auxVars>>

\* #flush up to its loop, the resolvers counted up to MaxWaiters
flushOfRun ==
    /\ op = "run"
    /\ rpc = "sent"
    /\ rpc' = "flushing"
    /\ lastCommand' = <<runCommand>>
    /\ didTimeout' = FALSE
    /\ didFlush' = FALSE
    /\ flushTimerArmed' = TRUE
    /\ waiting' = TRUE
    /\ listeners' = IF listeners < MaxWaiters THEN listeners + 1 ELSE listeners
    /\ UNCHANGED <<op, callVars, didReallyTimeout, runTimerArmed,
                   isHardlineActive, sends, calls, burst, outcome, value,
                   cooldown, injected>>
    /\ UNCHANGED <<hostVars, shellVars, pureVars, auxVars>>

RunLiveNext ==
    \/ run
    \/ runSendCommand
    \/ runSendCommandUncounted
    \/ flushOfRun
    \/ runTimer
    \/ flushTimer
    \/ shellChanges
    \/ readFileFails
    \/ runResumes

\* the timers fire, and every step run takes after a waitMs or an await is
\* taken; the host is free to write or to stay silent
RunFairness ==
    /\ WF_vars(runSendCommand)
    /\ WF_vars(runSendCommandUncounted)
    /\ WF_vars(flushOfRun)
    /\ WF_vars(runTimer)
    /\ WF_vars(flushTimer)
    /\ WF_vars(runResumes \/ readFileFails)

RunLiveSpec == RunInit /\ [][RunLiveNext]_vars /\ RunFairness

-----------------------------------------------------------------------------
(* The two send functions: SendSpec                                        *)

Newline == "\n"
\* the characters of a command: a letter, a blank, a line break
TextChars == {"a", " ", Newline}
Texts == SeqsUpTo(TextChars, MaxText)

\* command.trim() === ''
IsBlank(command) == \A i \in 1..Len(command) : command[i] \in {" ", Newline}
\* command.includes('\n')
HasNewline(command) == \E i \in 1..Len(command) : command[i] = Newline

\* sendRaw throws a TypeError on this command
Rejects(command) == IsBlank(command) \/ HasNewline(command)

\* command + '\n'
Keystrokes(command) == command \o <<Newline>>

\* sendRaw(command) of the marker-based engine
sendRaw ==
    \E command \in Texts, ok \in BOOLEAN :
        /\ IF Rejects(command)
           THEN /\ sent' = <<>>
                /\ sendResult' = [by |-> "sendRaw", command |-> command,
                                  result |-> "TypeError"]
           ELSE /\ sent' = <<Keystrokes(command)>>
                /\ sendResult' = [by |-> "sendRaw", command |-> command,
                                  result |-> IF ok THEN "true" ELSE "false"]
        /\ UNCHANGED <<startVars, watchVars, markupVars, raceVars>>
        /\ UNCHANGED <<hostVars, shellVars, pureVars, runVars>>

\* sendCommand(command) of the echo-based engine, which run calls with the
\* command it was given
sendCommand ==
    \E command \in Texts, ok \in BOOLEAN :
        /\ sent' = <<Keystrokes(command)>>
        /\ sendResult' = [by |-> "sendCommand", command |-> command,
                          result |-> IF ok THEN "true" ELSE "false"]
        /\ UNCHANGED <<startVars, watchVars, markupVars, raceVars>>
        /\ UNCHANGED <<hostVars, shellVars, pureVars, runVars>>

SendInit ==
    /\ log = <<>>
    /\ typed = <<>>
    /\ Constructed
    /\ NothingApplied
    /\ NotRunning
    /\ NoAux

SendNext ==
    \/ sendRaw
    \/ sendCommand

SendSpec == SendInit /\ [][SendNext]_vars

-----------------------------------------------------------------------------
(* Calls of the marker-based engine before init() has completed: StartSpec *)

\* 'kernel.hardline {dc: true}', the command exitHardline sends
DisconnectCommand == <<"kernel.hardline {dc: true}">>
\* the commands runCommand is called with: a well-formed and an empty one
StartCommands == {Foo, <<>>}

\* assertDidInit(): the error it throws, "none" if it returns
assertDidInit == IF didInit THEN "none" ELSE "OogNotInitializedError"

\* init() has not completed: it was not called, or it is waiting in
\* placeShellFlag
InitNotCompleted == pc \in {"new", "initFlag"}

\* a method that asserts before anything else: called' and raised'
AssertsFirst(method) ==
    /\ InitNotCompleted
    /\ called = "none"
    /\ called' = method
    /\ raised' = assertDidInit
    /\ UNCHANGED <<sendVars, watchVars, markupVars, raceVars>>
    /\ UNCHANGED <<hostVars, shellVars, pureVars, runVars>>

\* waitForFlush() called before init() has completed
earlyWaitForFlush == AssertsFirst("waitForFlush")

\* waitForCommandFlush(): its first waitForFlush() rejects, the loop ends
earlyWaitForCommandFlush == AssertsFirst("waitForCommandFlush")

\* flush(timeout) called before init() has completed
earlyFlush == AssertsFirst("flush")

\* runCommand(command): sendRaw(command) comes first and may throw or
\* refuse; flush() is reached 50 ms after the keystrokes
earlyRunCommand ==
    /\ InitNotCompleted
    /\ called = "none"
    /\ called' = "runCommand"
    /\ \E command \in StartCommands, ok \in BOOLEAN :
          IF Rejects(command)
          THEN raised' = "TypeError" /\ UNCHANGED typed
          ELSE IF ok
               THEN raised' = "pending" /\ typed' = Append(typed, command)
               ELSE raised' = "OogExecutionError" /\ UNCHANGED typed
    /\ UNCHANGED <<sendVars, watchVars, markupVars, raceVars>>
    /\ UNCHANGED <<log, shellVars, pureVars, runVars>>

\* enterHardline(): consumeLines(), sendRaw('kernel.hardline') whose
\* result is not looked at; flush(3000) is reached 50 ms later
earlyEnterHardline ==
    /\ InitNotCompleted
    /\ called = "none"
    /\ called' = "enterHardline"
    /\ raised' = "pending"
    /\ unprocessedLines' = <<>>
    /\ \E ok \in BOOLEAN :
          typed' = IF ok THEN Append(typed, KernelHardline) ELSE typed
    /\ UNCHANGED <<sendVars, watchVars, markupVars, raceVars>>
    /\ UNCHANGED <<log, lastShellFlag, didInit, isInHardline, uuids, pc, ret,
                   pureVars, runVars>>

\* exitHardline(): sendRaw of the disconnect command, result not looked
\* at; flush() is reached after waitMs(5000)
earlyExitHardline ==
    /\ InitNotCompleted
    /\ called = "none"
    /\ called' = "exitHardline"
    /\ raised' = "pending"
    /\ \E ok \in BOOLEAN :
          typed' = IF ok THEN Append(typed, DisconnectCommand) ELSE typed
    /\ UNCHANGED <<sendVars, watchVars, markupVars, raceVars>>
    /\ UNCHANGED <<log, shellVars, pureVars, runVars>>

\* the wait of runCommand, enterHardline or exitHardline is over: flush
\* asserts; "none" stands for the flush going on past the assertion
earlyFlushResumes ==
    /\ called \in {"runCommand", "enterHardline", "exitHardline"}
    /\ raised = "pending"
    /\ raised' = assertDidInit
    /\ UNCHANGED <<called, sendVars, watchVars, markupVars, raceVars>>
    /\ UNCHANGED <<hostVars, shellVars, pureVars, runVars>>

StartInit ==
    /\ log \in {<<line>> : line \in FreeLines}
    /\ typed = <<>>
    /\ Constructed
    /\ NothingApplied
    /\ NotRunning
    /\ NoAux

StartNext ==
    \/ init
    \/ initPlaceShellFlag
    \/ earlyWaitForFlush
    \/ earlyWaitForCommandFlush
    \/ earlyFlush
    \/ earlyRunCommand
    \/ earlyEnterHardline
    \/ earlyExitHardline
    \/ earlyFlushResumes
    \/ HostAppend
    \/ HostEchoTyped

StartSpec == StartInit /\ [][StartNext]_vars

-----------------------------------------------------------------------------
(* The FileWatcher: WatcherSpec                                            *)

\* the event types of fs.watch
EventTypes == {"change", "rename"}

\* the resolvers in registration order instead of popped
PopAll_InOrder(resolvers) == resolvers
\* while (listener = this.listeners.pop()) listener(): the resolvers in the
\* order they are called
RECURSIVE PopAll(_)
PopAll(resolvers) ==
    IF resolvers = <<>>
    THEN <<>>
    ELSE <<resolvers[Len(resolvers)]>>
             \o PopAll(SubSeq(resolvers, 1, Len(resolvers) - 1))

\* waitForChange(): the resolver of a new promise is pushed; a waiter is
\* named by the number of its registration
waitForChange ==
    /\ Len(wListeners) + Len(wReleased) < MaxWaiters
    /\ wListeners' = Append(wListeners, Len(wListeners) + Len(wReleased) + 1)
    /\ UNCHANGED <<wReleased, wEvents>>
    /\ UNCHANGED <<startVars, sendVars, markupVars, raceVars>>
    /\ UNCHANGED <<hostVars, shellVars, pureVars, runVars>>

\* one turn of the loop of listen(): an event of the watcher
listen ==
    /\ Len(wEvents) < MaxEvents
    /\ \E eventType \in EventTypes :
          /\ wEvents' = Append(wEvents, eventType)
          /\ IF eventType # "change"
             THEN UNCHANGED <<wListeners, wReleased>>
             ELSE /\ wReleased' = wReleased \o PopAll(wListeners)
                  /\ wListeners' = <<>>
    /\ UNCHANGED <<startVars, sendVars, markupVars, raceVars>>
    /\ UNCHANGED <<hostVars, shellVars, pureVars, runVars>>

WatcherInit ==
    /\ log = <<>>
    /\ typed = <<>>
    /\ Constructed
    /\ NothingApplied
    /\ NotRunning
    /\ NoAux

WatcherNext ==
    \/ waitForChange
    \/ listen

WatcherSpec == WatcherInit /\ [][WatcherNext]_vars

-----------------------------------------------------------------------------
(* The markup parser: ShellParser of src/src/terminal/parsing.ts           *)
(* Here a string is a sequence of characters, one string per character.    *)

ColorTagStart == <<"<", "c", "o", "l", "o", "r", "=", "#">>
\* <color=#FF0000FF>, <color=#9B9B9BFF>
TagRed  == ColorTagStart \o <<"F", "F", "0", "0", "0", "0", "F", "F", ">">>
TagGrey == ColorTagStart \o <<"9", "B", "9", "B", "9", "B", "F", "F", ">">>
\* a start tag with small letters in its value, and one with a value that
\* is no hex number
TagLower  == ColorTagStart \o <<"f", "f", "0", "0", "0", "0", "f", "f", ">">>
TagNonHex == ColorTagStart \o <<"G", "G", "0", "0", "0", "0", "F", "F", ">">>
\* </color>, and a tag pair of another name
TagEnd   == <<"<", "/", "c", "o", "l", "o", "r", ">">>
BoldTag  == <<"<", "b", ">">>
BoldEnd  == <<"<", "/", "b", ">">>
\* the stand-in of the backtick, and the backtick (one character, spelled
\* out here)
BACKTICK_ENCODED == "«"
BACKTICK == "backtick"

\* the pieces concatenated into one string
RECURSIVE Flatten(_)
Flatten(pieces) ==
    IF pieces = <<>> THEN <<>> ELSE Head(pieces) \o Flatten(Tail(pieces))

\* str.indexOf(c), 0-based, -1 when absent
IndexOfChar(str, c) ==
    IF \E i \in 1..Len(str) : str[i] = c
    THEN (CHOOSE i \in 1..Len(str) :
             str[i] = c /\ \A j \in 1..(i - 1) : str[j] # c) - 1
    ELSE -1

\* str.substring(from, to), 0 <= from <= to, cut at the end of the string
SubstringTo(str, from, to) ==
    SubSeq(str, from + 1, IF to < Len(str) THEN to ELSE Len(str))

HexDigits ==
    <<"0", "1", "2", "3", "4", "5", "6", "7", "8", "9",
      "A", "B", "C", "D", "E", "F">>
SmallHexDigits == <<"a", "b", "c", "d", "e", "f">>
IsHexDigit(c) ==
    \/ \E d \in 1..16 : HexDigits[d] = c
    \/ \E d \in 1..6 : SmallHexDigits[d] = c
HexDigitValue(c) ==
    IF \E d \in 1..16 : HexDigits[d] = c
    THEN (CHOOSE d \in 1..16 : HexDigits[d] = c) - 1
    ELSE (CHOOSE d \in 1..6 : SmallHexDigits[d] = c) + 9

\* parseInt(str, 16): the value of the leading run of hex digits, NaN when
\* there is none (the strings here hold no blank, sign or 0x prefix)
RECURSIVE HexDigitsValue(_, _)
HexDigitsValue(str, acc) ==
    IF str = <<>> \/ ~IsHexDigit(str[1]) THEN acc
    ELSE HexDigitsValue(Tail(str), 16 * acc + HexDigitValue(str[1]))

ParseHex(str) ==
    IF str = <<>> \/ ~IsHexDigit(str[1]) THEN NaN
    ELSE Num(HexDigitsValue(str, 0))

hexToRgba(color) ==
    <<ParseHex(SubstringTo(color, 0, 2)), ParseHex(SubstringTo(color, 2, 4)),
      ParseHex(SubstringTo(color, 4, 6)), ParseHex(SubstringTo(color, 6, 8))>>

\* charReplacements, and a character it does not hold
charReplacements(c) ==
    IF c = BACKTICK_ENCODED THEN BACKTICK
    ELSE IF c = LESS_THAN_ENCODED THEN "<"
    ELSE IF c = GREATER_THAN_ENCODED THEN ">"
    ELSE c

\* the three kinds of ParseNode, as records of one shape
TextNode(text) ==
    [type |-> "TEXT", text |-> text, name |-> <<>>, colorHex |-> <<>>,
     colorRgba |-> <<>>, children |-> <<>>]
ColorNode(colorHex, colorRgba, children) ==
    [type |-> "COLOR", text |-> <<>>, name |-> <<>>, colorHex |-> colorHex,
     colorRgba |-> colorRgba, children |-> children]
EndTag(name) ==
    [type |-> "END_TAG", text |-> <<>>, name |-> name, colorHex |-> <<>>,
     colorRgba |-> <<>>, children |-> <<>>]

\* what a parse function hands back: the node and what is left of this.str,
\* or that it threw
Parsed(node, rest) == [threw |-> FALSE, node |-> node, rest |-> rest]
ParseError == [threw |-> TRUE, node |-> TextNode(<<>>), rest |-> <<>>]

\* parseText(): the characters up to the next <, the stand-ins replaced
parseText(str) ==
    LET i == IF IndexOfChar(str, "<") = -1 THEN Len(str)
             ELSE IndexOfChar(str, "<")
    IN  Parsed(TextNode([k \in 1..i |-> charReplacements(str[k])]),
               Substring(str, i))

\* parseEndTag(): the name between </ and the next >
parseEndTag(str) ==
    LET endIndex == IndexOfChar(str, ">")
    IN  IF endIndex = -1 THEN ParseError
        ELSE Parsed(EndTag(SubstringTo(str, 2, endIndex)),
                    Substring(str, endIndex + 1))

\* the end of input inside a color tag hands back what was parsed so far
Unclosed_Returns(children) == Parsed(ColorNode(<<>>, <<>>, children), <<>>)
\* if (!foundEnd) throw new Error('Expected </color>, but got EOF!')
Unclosed(children) == ParseError

\* no end tag dangles
Dangles_Never(node) == FALSE
\* newNode.type === NodeType.END_TAG in parseAll()
Dangles(node) == node.type = "END_TAG"

RECURSIVE parseTag(_)
RECURSIVE parseChildren(_, _)
\* parseTag(): a text, an end tag, or a color node with its children
parseTag(str) ==
    IF ~StartsWith(str, <<"<">>) THEN parseText(str)
    ELSE IF StartsWith(str, <<"<", "/">>) THEN parseEndTag(str)
    ELSE IF ~StartsWith(str, ColorTagStart) THEN ParseError
    ELSE LET lengthOfTagStart == Len(ColorTagStart)
             colorHex == SubstringTo(str, lengthOfTagStart, lengthOfTagStart + 8)
             inner == parseChildren(Substring(str, lengthOfTagStart + 9), <<>>)
         IN  IF inner.threw THEN ParseError
             ELSE Parsed(ColorNode(colorHex, hexToRgba(colorHex),
                                   inner.node.children),
                         inner.rest)

\* the loop of parseTag(): children up to the end tag named color; the
\* children are handed back in a color node
parseChildren(str, children) ==
    IF str = <<>> THEN Unclosed(children)
    ELSE LET newNode == parseTag(str)
         IN  IF newNode.threw THEN ParseError
             ELSE IF newNode.node.type # "END_TAG"
                  THEN parseChildren(newNode.rest,
                                     Append(children, newNode.node))
             ELSE IF newNode.node.name # <<"c", "o", "l", "o", "r">>
                  THEN ParseError
             ELSE Parsed(ColorNode(<<>>, <<>>, children), newNode.rest)

\* parseAll(): nodes until the string is used up; an end tag here dangles
RECURSIVE parseAll(_, _)
parseAll(str, nodes) ==
    IF str = <<>>
    THEN [threw |-> FALSE, nodes |-> nodes, text |-> <<>>, colorStack |-> <<>>]
    ELSE LET newNode == parseTag(str)
         IN  IF newNode.threw \/ Dangles(newNode.node) THEN Threw
             ELSE parseAll(newNode.rest, Append(nodes, newNode.node))

\* ShellParser.parse(input)
parse(input) == parseAll(input, <<>>)

-----------------------------------------------------------------------------
(* The uncoloured view of a text, character by character                   *)

IsCapitalHexDigit(c) == \E d \in 1..16 : HexDigits[d] = c

\* /<color=#[0-9A-F]{8}>/ matches at the start of the string
StartTagAhead(str) ==
    /\ Len(str) >= Len(ColorTagStart) + 9
    /\ StartsWith(str, ColorTagStart)
    /\ \A i \in 1..8 : IsCapitalHexDigit(str[Len(ColorTagStart) + i])
    /\ str[Len(ColorTagStart) + 9] = ">"

\* str.replaceAll(colorRegex, ''): one pass from left to right
RECURSIVE removeStartTags(_)
removeStartTags(str) ==
    IF str = <<>> THEN <<>>
    ELSE IF StartTagAhead(str)
         THEN removeStartTags(Substring(str, Len(ColorTagStart) + 9))
         ELSE <<Head(str)>> \o removeStartTags(Tail(str))

\* str.replaceAll('</color>', ''): one pass from left to right
RECURSIVE removeEndTags(_)
removeEndTags(str) ==
    IF str = <<>> THEN <<>>
    ELSE IF StartsWith(str, TagEnd)
         THEN removeEndTags(Substring(str, Len(TagEnd)))
         ELSE <<Head(str)>> \o removeEndTags(Tail(str))

\* removeColors(str) of utils, on characters
removeColorsOf(str) == removeEndTags(removeStartTags(str))

\* the uncoloured text of #postProcess: colours removed, then the stand-ins
\* of the angle brackets turned back
uncoloredText(rawText) == DecodeAngles(removeColorsOf(rawText))

\* The markup-preserving renderer: a text node gives its text, a color node
\* its start tag, its children and </color>.
RECURSIVE renderPreserving(_)
renderPreserving(nodes) ==
    IF nodes = <<>> THEN <<>>
    ELSE LET node == Head(nodes)
         IN  (IF node.type = "TEXT" THEN node.text
              ELSE ColorTagStart \o node.colorHex \o <<">">>
                       \o renderPreserving(node.children) \o TagEnd)
             \o renderPreserving(Tail(nodes))

-----------------------------------------------------------------------------
(* The parser and the uncoloured view applied to inputs: ParseSpec         *)

PlainText == <<"a">>
\* the pieces an input is put together from
MarkupPieces ==
    {PlainText, <<BACKTICK_ENCODED>>, <<LESS_THAN_ENCODED>>, TagRed, TagLower,
     TagNonHex, TagEnd, BoldTag, BoldEnd}

callParse ==
    /\ mStep = "input"
    /\ mStep' = "parse"
    /\ mOut' = parse(Flatten(mPieces))
    /\ UNCHANGED <<mPieces, mOptions>>
    /\ UNCHANGED <<startVars, sendVars, watchVars, raceVars>>
    /\ UNCHANGED <<hostVars, shellVars, pureVars, runVars>>

callUncoloredText ==
    /\ mStep = "input"
    /\ mStep' = "uncoloredText"
    /\ mOut' = [threw |-> FALSE, nodes |-> <<>>,
                text |-> uncoloredText(Flatten(mPieces)), colorStack |-> <<>>]
    /\ UNCHANGED <<mPieces, mOptions>>
    /\ UNCHANGED <<startVars, sendVars, watchVars, raceVars>>
    /\ UNCHANGED <<hostVars, shellVars, pureVars, runVars>>

\* everything idle but the markup family
OnlyMarkup ==
    /\ NoRace
    /\ log = <<>>
    /\ typed = <<>>
    /\ Constructed
    /\ NothingApplied
    /\ NotRunning
    /\ called = "none"
    /\ raised = "none"
    /\ sent = <<>>
    /\ sendResult = NoSend
    /\ wListeners = <<>>
    /\ wReleased = <<>>
    /\ wEvents = <<>>

ParseInit ==
    /\ OnlyMarkup
    /\ mPieces \in SeqsUpTo(MarkupPieces, MaxPieces)
    /\ mOptions = DefaultOptions
    /\ mStep = "input"
    /\ mOut = NoMarkupOut

ParseNext ==
    \/ callParse
    \/ callUncoloredText

ParseSpec == ParseInit /\ [][ParseNext]_vars

-----------------------------------------------------------------------------
(* The ANSI renderer: AnsiConverter of src/src/terminal/ansi_converter.ts  *)
(* An escape sequence is one string; a rendered text is a sequence of      *)
(* escape sequences and characters.                                        *)

ColorDepths == {"NONE", "EIGHT_BIT", "TRUE_COLOR"}

\* The colours module: the default text colour and the palette of the
\* reduced depth, which has an entry for some colours only.
defaultTextColorHex == <<"9", "B", "9", "B", "9", "B", "F", "F">>
defaultTextColorRgba == hexToRgba(defaultTextColorHex)
NoEntry == "undefined"
vgaTranslationTable(rgb) ==
    IF rgb = <<"F", "F", "0", "0", "0", "0">> THEN "31"
    ELSE IF rgb = <<"9", "B", "9", "B", "9", "B">> THEN "37"
    ELSE NoEntry
\* <color=#123456FF>: a colour the palette has no entry for
TagUnknown ==
    ColorTagStart \o <<"1", "2", "3", "4", "5", "6", "F", "F", ">">>

\* a corruption character and the block element it is replaced by
CorruptionChar == "¡"
BlockElement == "█"
corruptionCharReplacements(c) == IF c = CorruptionChar THEN BlockElement ELSE c

\* '\x1b[0m'
ResetEscape == "ESC[0m"

\* a number inside a template string
Shown(v) == IF v.nan THEN "NaN" ELSE ToString(v.n)

\* what makeAnsiColor hands back: the escape sequence ('' is no element at
\* all), or that it threw
Escape(text) == [threw |-> FALSE, text |-> text]

\* a colour without palette entry is rendered in the default colour
UnknownColor_Default(colorHex) == Escape(<<"ESC[37m">>)
\* if (!vgaColor) throw new Error(`Unknown color: ${node.colorHex}!`)
UnknownColor(colorHex) == [threw |-> TRUE, text |-> <<>>]

makeEightBitColor(colorHex) ==
    LET vgaColor == vgaTranslationTable(SubstringTo(colorHex, 0, 6))
    IN  IF vgaColor = NoEntry THEN UnknownColor(colorHex)
        ELSE Escape(<<"ESC[" \o vgaColor \o "m">>)

makeTrueColor(colorRgba) ==
    Escape(<<"ESC[38;2;" \o Shown(colorRgba[1]) \o ";" \o Shown(colorRgba[2])
                 \o ";" \o Shown(colorRgba[3]) \o "m">>)

makeAnsiColor(colorDepth, colorHex, colorRgba) ==
    IF colorDepth = "NONE" THEN Escape(<<>>)
    ELSE IF colorDepth = "EIGHT_BIT" THEN makeEightBitColor(colorHex)
    ELSE makeTrueColor(colorRgba)

\* convertCorruption(text)
convertCorruption(text) ==
    [i \in 1..Len(text) |-> corruptionCharReplacements(text[i])]

\* the converter: its options, its colour stack, its result so far
Converter(options, colorStack, result) ==
    [threw |-> FALSE, options |-> options, colorStack |-> colorStack,
     result |-> result]
ConverterThrew(options) ==
    [threw |-> TRUE, options |-> options, colorStack |-> <<>>, result |-> <<>>]

\* new AnsiConverter(options): the default colour is pushed and written
newAnsiConverter(options) ==
    LET defaultColor == makeAnsiColor(options.colorDepth, defaultTextColorHex,
                                      defaultTextColorRgba)
    IN  IF defaultColor.threw THEN ConverterThrew(options)
        ELSE Converter(options, <<defaultColor.text>>, defaultColor.text)

\* the colour written on leaving a color node is always the default one
prevColor_Default(colorStack) == colorStack[1]
\* this.colorStack[this.colorStack.length - 1]
prevColor(colorStack) == Last(colorStack)

visitText(node, c) ==
    Converter(c.options, c.colorStack,
              c.result \o (IF c.options.replaceCorruption
                            THEN convertCorruption(node.text) ELSE node.text))

RECURSIVE visitAll(_, _)
visitColor(node, c) ==
    LET prev == prevColor(c.colorStack)
        newColor == makeAnsiColor(c.options.colorDepth, node.colorHex,
                                  node.colorRgba)
    IN  IF newColor.threw THEN ConverterThrew(c.options)
        ELSE LET inside == visitAll(node.children,
                               Converter(c.options,
                                         Append(c.colorStack, newColor.text),
                                         c.result \o newColor.text))
             IN  IF inside.threw THEN inside
                 ELSE Converter(c.options, Front(inside.colorStack),
                                inside.result \o prev)

\* NodeVisitor.visitAll and visit
visitAll(nodes, c) ==
    IF nodes = <<>> \/ c.threw THEN c
    ELSE visitAll(Tail(nodes),
                  IF Head(nodes).type = "TEXT" THEN visitText(Head(nodes), c)
                  ELSE visitColor(Head(nodes), c))

\* getResult(): the reset escape is appended unless the depth is NONE
getResult(c) ==
    IF c.options.colorDepth # "NONE" THEN c.result \o <<ResetEscape>>
    ELSE c.result

\* AnsiConverter.convertFromShellText(input, options)
convertFromShellText(input, options) ==
    LET parsed == parse(input)
        c == visitAll(parsed.nodes, newAnsiConverter(options))
    IN  IF parsed.threw \/ c.threw THEN Threw
        ELSE [threw |-> FALSE, nodes |-> parsed.nodes, text |-> getResult(c),
              colorStack |-> c.colorStack]

\* the pieces an input of the renderer is put together from
AnsiPieces ==
    {PlainText, <<CorruptionChar>>, TagRed, TagGrey, TagUnknown, TagEnd}

callConvertFromShellText ==
    /\ mStep = "input"
    /\ mStep' = "convertFromShellText"
    /\ mOut' = convertFromShellText(Flatten(mPieces), mOptions)
    /\ UNCHANGED <<mPieces, mOptions>>
    /\ UNCHANGED <<startVars, sendVars, watchVars, raceVars>>
    /\ UNCHANGED <<hostVars, shellVars, pureVars, runVars>>

AnsiInit ==
    /\ OnlyMarkup
    /\ mPieces \in SeqsUpTo(AnsiPieces, MaxPieces)
    /\ mOptions \in [colorDepth : ColorDepths, replaceCorruption : BOOLEAN]
    /\ mStep = "input"
    /\ mOut = NoMarkupOut

AnsiNext ==
    \/ callConvertFromShellText

AnsiSpec == AnsiInit /\ [][AnsiNext]_vars

-----------------------------------------------------------------------------
(* Properties of the marker-based engine, checked under Spec               *)

NoLineHolds(lines, flag) == \A i \in 1..Len(lines) : ~Includes(lines[i], flag)

\* the current marker is set and line k is the first line holding it
MarkerAt(k) ==
    /\ lastShellFlag # Undefined
    /\ k \in 1..Len(log)
    /\ Includes(log[k], lastShellFlag)
    /\ \A j \in 1..(k - 1) : ~Includes(log[j], lastShellFlag)

\* lines that are no sentinel of the protocol
NonSentinelLines == {LineA, LineB, BlankLine}

\* the log is: ..., marker line, two follow-up lines, then n more lines
LogEndsAfter(k, n) == MarkerAt(k) /\ Len(log) = k + 2 + n

\* a marker that occurs nowhere yet: not in the log, not among the typed lines
Fresh(flag) ==
    /\ flag # Undefined
    /\ NoLineHolds(log, flag)
    /\ NoLineHolds(typed, flag)

\* what a command flush over [A, B, FLUSH_MESSAGE] has to do
CommandFlushOf(A, B) ==
    /\ ret' = "COMMAND"
    /\ unprocessedLines' = unprocessedLines \o <<A, B>>
    /\ lastShellFlag' # lastShellFlag
    /\ Fresh(lastShellFlag')
    /\ pc' = "flag"

\* C1 as stated: with the log [.., marker, x, y, A, B, FLUSH_MESSAGE], A and B
\* any non-sentinel lines, updateShell returns COMMAND, appends exactly
\* [A, B] to unprocessedLines and sets a new marker, which it goes on to type.
C1_AnyNonSentinel ==
    [][\A k \in 1..Len(log) :
          (/\ LogEndsAfter(k, 3)
           /\ log[k + 3] \in NonSentinelLines
           /\ log[k + 4] \in NonSentinelLines
           /\ log[k + 5] = FLUSH_MESSAGE
           /\ waitForFlush)
              => CommandFlushOf(log[k + 3], log[k + 4])]_vars

\* C1 amended: the same for every non-sentinel A and every non-sentinel,
\* non-blank B; a blank B is stripped with the sentinel and only [A] is
\* appended.
C1_CommandFlush ==
    [][\A k \in 1..Len(log) :
          (/\ LogEndsAfter(k, 3)
           /\ log[k + 3] \in NonSentinelLines
           /\ log[k + 4] \in NonSentinelLines
           /\ log[k + 5] = FLUSH_MESSAGE
           /\ waitForFlush)
              => IF log[k + 4] # BlankLine
                 THEN CommandFlushOf(log[k + 3], log[k + 4])
                 ELSE /\ ret' = "COMMAND"
                      /\ unprocessedLines' = unprocessedLines \o <<log[k + 3]>>
                      /\ Fresh(lastShellFlag')]_vars

\* C1 witness: init placed uuid1 on a log ending in the sentinel, the host
\* echoed it and wrote a, b and the sentinel, and the read has delivered
\* [a, b] and set uuid2.
C1_Witness ==
    /\ ret = "COMMAND"
    /\ lastShellFlag = Uuid(2)
    /\ unprocessedLines = <<LineA, LineB>>
    /\ Len(log) = 7
    /\ Includes(log[2], Uuid(1))
    /\ SubSeq(log, 5, 7) = <<LineA, LineB, FLUSH_MESSAGE>>

C8_MarkerDesyncFatal ==
    [][/\ (lastShellFlag # Undefined /\ NoLineHolds(log, lastShellFlag)
                                     /\ waitForFlush)
           => /\ ret' = "error"
              /\ unprocessedLines' = unprocessedLines
              /\ lastShellFlag' = lastShellFlag
              /\ uuids' = uuids
              /\ typed' = typed
       /\ (ret' # "error" /\ waitForFlush)
           => (lastShellFlag = Undefined \/ ~NoLineHolds(log, lastShellFlag))
       /\ init => (lastShellFlag = Undefined /\ ret' # "error")]_vars

\* C8 witness: init has completed, a marker is set, the log does not hold it
\* (the host has not echoed it), and the read threw with lines still pending.
C8_Witness ==
    /\ ret = "error"
    /\ didInit
    /\ lastShellFlag = Uuid(2)
    /\ NoLineHolds(log, lastShellFlag)
    /\ unprocessedLines # <<>>

\* the lines a step appended to the pending buffer
Appended == SubSeq(unprocessedLines', Len(unprocessedLines) + 1,
                   Len(unprocessedLines'))

\* C9: a read that extracts lines (returns COMMAND) generates exactly one
\* marker, fresh and different from the previous one, stores it in
\* lastShellFlag and goes on to type it; no other step changes the marker;
\* what is typed is the command of the current marker; and a read with a
\* marker set delivers only lines lying more than two lines after the first
\* line holding the current marker.
C9_MarkerLifecycle ==
    [][/\ (ret' = "COMMAND" /\ (init \/ waitForFlush))
           => /\ uuids' = uuids + 1
              /\ lastShellFlag' # lastShellFlag
              /\ Fresh(lastShellFlag')
              /\ pc' \in {"flag", "initFlag"}
       /\ (lastShellFlag' # lastShellFlag)
           => (ret' = "COMMAND" /\ (init \/ waitForFlush))
       /\ (typed' # typed /\ Len(typed') > Len(typed))
           => typed' = Append(typed, FlagCommand(lastShellFlag))
       /\ (ret' = "COMMAND" /\ lastShellFlag # Undefined /\ waitForFlush)
           => \E k \in 1..Len(log) :
                 /\ MarkerAt(k)
                 /\ Len(Appended) <= Len(log) - (k + 2)
                 /\ \A i \in 1..Len(Appended) :
                       \E j \in (k + 3)..Len(log) : log[j] = Appended[i]]_vars

\* C9 witness: the second marker has replaced the first, was typed and
\* echoed after the first one's echo, and lines were extracted in between.
C9_Witness ==
    /\ lastShellFlag = Uuid(2)
    /\ ret = "COMMAND"
    /\ pc = "idle"
    /\ \E i, j \in 1..Len(log) :
          i < j /\ Includes(log[i], Uuid(1)) /\ Includes(log[j], Uuid(2))
    /\ unprocessedLines # <<>>

\* C29: when the marker is set and line k is the first line holding it, a
\* read takes exactly the lines after line k + 2 as the new suffix: the
\* flush is classified by the last of them, an AUTO flush delivers nothing,
\* and a COMMAND flush delivers exactly what updateShell keeps of them, so
\* the marker line and the two lines after it are never delivered and no
\* later line is left out of the suffix.
C29_OffsetPolicy ==
    [][\A k \in 1..Len(log) :
          (MarkerAt(k) /\ waitForFlush)
              => LET suffix == SubSeq(log, k + 3, Len(log)) IN
                 IF suffix = <<>>
                 THEN ret' = "AUTO" /\ unprocessedLines' = unprocessedLines
                 ELSE /\ ret' = FlushReasonOf(suffix)
                      /\ isInHardline' = HardlineAfter(suffix, isInHardline)
                      /\ unprocessedLines' =
                            IF ret' = "COMMAND"
                            THEN unprocessedLines \o Delivered(suffix)
                            ELSE unprocessedLines]_vars

\* C29 witness: the first marker was echoed on line k, the host wrote its two
\* follow-up lines, then a and the sentinel, and the read has delivered [a]
\* and neither follow-up line.
C29_Witness ==
    /\ ret = "COMMAND"
    /\ lastShellFlag = Uuid(2)
    /\ unprocessedLines = <<LineA>>
    /\ \E k \in 1..Len(log) :
          /\ Includes(log[k], Uuid(1))
          /\ Len(log) = k + 4
          /\ SubSeq(log, k + 1, k + 4) =
                <<FollowUp1, FollowUp2, LineA, FLUSH_MESSAGE>>

Count(lines, line) == Cardinality({i \in 1..Len(lines) : lines[i] = line})

\* output lines of the host that are neither marker echo nor sentinel nor
\* control line nor blank
OutputLines == {LineA, LineB}

\* line m is the one sentinel line before line k: the read that placed the
\* marker echoed on line k was a command flush, so it ended on line m
ReadEndedAt(m, k) ==
    /\ m \in 1..(k - 1)
    /\ log[m] = FLUSH_MESSAGE
    /\ \A i \in 1..(k - 1) : log[i] = FLUSH_MESSAGE => i = m

\* C38: a command flush delivers every output line the host wrote since the
\* read before it, exactly once: with the previous read ended on line m and
\* the marker it placed echoed on line k, each output line occurs in what
\* the read appends as often as it occurs after line m.
C38_ExactlyOnce ==
    [][\A k \in 1..Len(log) : \A m \in 1..Len(log) :
          (/\ didInit
           /\ MarkerAt(k)
           /\ ReadEndedAt(m, k)
           /\ Last(log) = FLUSH_MESSAGE
           /\ waitForFlush)
              => \A line \in OutputLines :
                    Count(Appended, line)
                        = Count(SubSeq(log, m + 1, Len(log)), line)]_vars

\* what holds: the output lines after the marker's two follow-up lines are
\* delivered exactly once, and the output lines the host wrote between the
\* previous read and the marker line are never delivered
OnlyAfterMarkerDelivered ==
    [][\A k \in 1..Len(log) :
          (/\ didInit
           /\ MarkerAt(k)
           /\ Last(log) = FLUSH_MESSAGE
           /\ waitForFlush)
              => \A line \in OutputLines :
                    Count(Appended, line)
                        = Count(SubSeq(log, k + 3, Len(log)), line)]_vars

\* the host can write an output line after a read and before it echoes the
\* marker that read placed
WrittenBeforeMarkerEcho ==
    \E k \in 2..Len(log) :
        /\ MarkerAt(k)
        /\ log[k - 1] \in OutputLines
        /\ \E m \in 1..(k - 2) : ReadEndedAt(m, k)

\* C31: when init completes a marker is set and the pending buffer is empty,
\* and every read after init finds a marker set, so none takes the whole file
\* as new.
C31_WholeFileOnlyAtStartup ==
    [][/\ (didInit' /\ ~didInit)
           => (lastShellFlag' # Undefined /\ unprocessedLines' = <<>>)
       /\ waitForFlush => lastShellFlag # Undefined]_vars

\* the part of C31 that holds: the pending buffer is empty when init completes
PendingEmptyAfterInit ==
    [][(didInit' /\ ~didInit) => unprocessedLines' = <<>>]_vars

\* init sets a marker exactly when its read was a command flush
MarkerOnlyAfterCommandFlush ==
    [][(didInit' /\ ~didInit)
          => (lastShellFlag' # Undefined <=> ret' = "COMMAND")]_vars

\* a read after init without a marker delivers lines of the whole file
WholeFileAfterInit ==
    /\ didInit
    /\ uuids = 1
    /\ ret = "COMMAND"
    /\ pc = "flag"
    /\ unprocessedLines # <<>>
    /\ unprocessedLines[1] = log[1]

\* the new lines of a read hold both hardline control lines
BothControlLines(batch) ==
    /\ Contains(batch, HARDLINE_ACTIVE_MESSAGE)
    /\ Contains(batch, HARDLINE_DISCONNECTED_MESSAGE)

\* C35: after a read whose new lines hold both a hardline-active and a
\* hardline-disconnected line, the tracked mode is the one announced by
\* the later of the two.
C35_LatestControlLine ==
    [][(waitForFlush /\ BothControlLines(updateShell(log).seen))
          => LET batch == updateShell(log).seen IN
             isInHardline' = (LastIndexOf(batch, HARDLINE_ACTIVE_MESSAGE)
                              > LastIndexOf(batch, HARDLINE_DISCONNECTED_MESSAGE))]_vars

\* what the code does: with both lines among the new lines the mode is off
\* afterwards, in whatever order they stand; with one of them it is the one
\* that line announces
DisconnectedAlwaysWins ==
    [][waitForFlush
          => LET batch == updateShell(log).seen IN
             /\ Contains(batch, HARDLINE_DISCONNECTED_MESSAGE)
                    => ~isInHardline'
             /\ (/\ Contains(batch, HARDLINE_ACTIVE_MESSAGE)
                 /\ ~Contains(batch, HARDLINE_DISCONNECTED_MESSAGE))
                    => isInHardline']_vars

-----------------------------------------------------------------------------
(* Properties of flush and its race, checked under RaceSpec                *)

\* loop b was started by a flush call that has returned
Abandoned(b) == fBranches[b].call < fCalls \/ fAt = "idle"

\* C33: a waitForCommandFlush loop whose flush call has returned (the timeout
\* won) changes neither the pending buffer nor the marker, and types none,
\* when the file changes later.
C33_LosersDiscarded ==
    [][\A b \in 1..Len(fBranches) :
          (Abandoned(b) /\ (branchUpdateShell(b) \/ branchPlaceShellFlag(b)))
              => UNCHANGED <<unprocessedLines, lastShellFlag, typed>>]_vars

\* a loop outlives its flush call only when that call ended by timeout
AbandonedOnlyByTimeout ==
    (fAt = "idle" /\ fBranches # <<>> /\ fBranches[Len(fBranches)].call = fCalls)
        => fRet = "timeout"

\* the flag of a returned call is dead: what an abandoned loop does never
\* changes what flush returned, nor the flags of a later call in progress
LoserWritesNoFlag ==
    [][\A b \in 1..Len(fBranches) :
          (Abandoned(b) /\ (branchUpdateShell(b) \/ branchPlaceShellFlag(b)))
              => UNCHANGED <<fRet, didCommandFlush, fDidTimeout>>]_vars

-----------------------------------------------------------------------------
(* Properties of the echo-based engine, checked under RunSpec              *)

\* C4: within one call of run with retry = false, sendCommand(command) is
\* called at most once, whatever the host writes and whenever the timers and
\* the change notifications come.
C4_SentAtMostOnce == (op = "run" /\ ~runRetry) => sends <= 1

\* C4 witness: a run with retry = false was notified of a change, found no
\* answer in the log before any budget elapsed, and returned null after its
\* one send.
C4_Witness ==
    /\ op = "run"
    /\ rpc = "idle"
    /\ ~runRetry
    /\ ~didReallyTimeout
    /\ log # <<>>
    /\ outcome = "null"
    /\ sends = 1

C6_TimeoutNotRaised ==
    [][(rpc = "flushing" /\ didTimeout /\ rpc' # "flushing")
          => outcome' \notin Thrown]_vars

\* C7: whenever run is over, returned or thrown, lastCommand is undefined.
C7_ClearedAfterRun == (op = "run" /\ rpc = "idle") => lastCommand = NoCommand

\* C7 without the rejected read: whenever run ends in another way (it returns,
\* or the injection was refused on a first attempt or after a cleared one),
\* the step that resumes it after #flush has cleared lastCommand.  This holds.
ClearedUnlessReadFailed ==
    [][(op = "run" /\ rpc = "flushing" /\ rpc' # "flushing"
                   /\ outcome' # "ReadFailed")
          => lastCommand' = NoCommand]_vars

\* C12: whenever enterHardline has returned 0, the tracked mode is active.
C12_ZeroMeansActive ==
    (op = "enterHardline" /\ rpc = "idle" /\ outcome = "number"
                          /\ cooldown = Num(0))
        => isHardlineActive

\* the response enterHardline judges: what #postProcess leaves of the lines
\* #flush handed back
HardlineResponse == postProcess(KernelHardline, Flushed.lines).lines

ResponseHolds(message) ==
    \E i \in 1..Len(HardlineResponse) :
        IncludesStr(HardlineResponse[i], message)

\* C13: when #flush hands enterHardline a response that holds the rejection
\* "... hardline is recalibrating. 12s left" and neither an already-active
\* nor an activating line, enterHardline returns 13000 at once: no filler
\* keystroke is sent, no wait follows, and an inactive mode stays inactive.
C13_CooldownRejection ==
    [][(/\ op = "enterHardline"
        /\ rpc = "flushing"
        /\ rpc' # "flushing"
        /\ outcome' # "ReadFailed"
        /\ ~Flushed.null
        /\ ResponseHolds(HARDLINE_RECALIBRATING_MESSAGE)
        /\ ~ResponseHolds(HARDLINE_ALREADY_ACTIVE_MESSAGE)
        /\ ~ResponseHolds(ACTIVATING_HARDLINE_MESSAGE))
          => /\ rpc' = "idle"
             /\ outcome' = "number"
             /\ cooldown' = Num(13000)
             /\ burst' = 0
             /\ ~isHardlineActive => ~isHardlineActive']_vars

\* C13 witness: the host answered kernel.hardline with the rejection line
\* alone, and enterHardline returned 13000 with no filler sent and the mode
\* inactive.
C13_Witness ==
    /\ op = "enterHardline"
    /\ rpc = "idle"
    /\ outcome = "number"
    /\ cooldown = Num(13000)
    /\ burst = 0
    /\ ~isHardlineActive
    /\ log = <<CooldownLine(HARDLINE_RECALIBRATING_MESSAGE, 12)>>

InActivation == rpc \in {"settling", "filling", "resting"}

\* C14: when #flush(3000) ends by its timeout, enterHardline goes into the
\* silent wait with no filler sent yet; fillers are sent one by one, only
\* after that wait, twelve in all before the long wait begins; the operation
\* ends only after the long wait, with twelve fillers sent, and that step
\* alone makes the mode active and returns 0.
C14_OptimisticActivation ==
    [][(op = "enterHardline" /\ rpc # "idle")
          => /\ (rpc = "flushing" /\ rpc' # "flushing" /\ didTimeout)
                 => /\ rpc' = "settling"
                    /\ burst' = 0
                    /\ outcome' = "pending"
                    /\ isHardlineActive' = isHardlineActive
             /\ (burst' # burst)
                 => /\ rpc \in {"settling", "filling"}
                    /\ burst < HardlineBursts
                    /\ burst' = burst + 1
                    /\ outcome' = "pending"
             /\ (rpc # "resting" /\ rpc' = "resting")
                 => burst' = HardlineBursts
             /\ (InActivation /\ rpc' = "idle")
                 => /\ rpc = "resting"
                    /\ burst = HardlineBursts
                    /\ isHardlineActive'
                    /\ outcome' = "number"
                    /\ cooldown' = Num(0)
             /\ (InActivation /\ isHardlineActive' # isHardlineActive)
                 => rpc = "resting" /\ rpc' = "idle"]_vars

\* C14 witness: the host wrote nothing, #flush(3000) timed out, and
\* enterHardline returned 0 with twelve fillers sent and the mode active.
C14_Witness ==
    /\ op = "enterHardline"
    /\ rpc = "idle"
    /\ outcome = "number"
    /\ cooldown = Num(0)
    /\ burst = HardlineBursts
    /\ isHardlineActive
    /\ log = <<>>

\* the response to the deactivation command: the lines of the file after the
\* last echo of the command, all its lines when the command is not echoed
ExitResponse ==
    LET lines == Rejoined(log)
        k == FindLastIndexStripped(lines, Prompted(ExitCommand))
    IN  IF k = -1 THEN lines ELSE Slice(lines, k + 1)

DisconnectConfirmed ==
    \E i \in 1..Len(ExitResponse) :
        IncludesStr(ExitResponse[i], HARDLINE_DISCONNECTED_MESSAGE)

\* C15: when exitHardline returns (no Pending Command being left over from a
\* failed run), it returns true exactly if the response holds a disconnect
\* line; the mode changes only then, and to inactive.
C15_Deactivation ==
    [][(/\ op = "exitHardline"
        /\ rpc = "flushing"
        /\ rpc' = "idle"
        /\ lastCommand = NoCommand
        /\ outcome' \in {"true", "false"})
          => /\ (outcome' = "true") <=> DisconnectConfirmed
             /\ DisconnectConfirmed => ~isHardlineActive'
             /\ ~DisconnectConfirmed
                    => isHardlineActive' = isHardlineActive]_vars

\* the return value alone is as claimed: true exactly if the response holds
\* a disconnect line.  This holds.
ExitReturnsDisconnect ==
    [][(/\ op = "exitHardline"
        /\ rpc = "flushing"
        /\ rpc' = "idle"
        /\ lastCommand = NoCommand
        /\ outcome' \in {"true", "false"})
          => ((outcome' = "true") <=> DisconnectConfirmed)]_vars

\* C18: the step of init() in which native.init() refuses ends init() with
\* an error and has clicked, escaped and typed nothing, registered no waiter
\* and armed no timer; and until another operation is called init() stays
\* over and failed, with nothing injected.
C18_InitFailure ==
    [][/\ (rpc = "idle" /\ op' = "init" /\ rpc' = "idle"
                        /\ calls' = calls + 1)
           => /\ outcome' = "InitFailed"
              /\ ~injected'
              /\ listeners' = listeners
              /\ ~flushTimerArmed'
              /\ ~waiting'
       /\ (op = "init" /\ outcome = "InitFailed" /\ rpc = "idle"
                        /\ calls' = calls)
           => /\ rpc' = "idle"
              /\ outcome' = "InitFailed"
              /\ ~injected'
              /\ listeners' <= listeners]_vars

\* C18 witness: the first call was init(), native.init() refused, and init()
\* is over with nothing injected.
C18_Witness ==
    /\ op = "init"
    /\ rpc = "idle"
    /\ outcome = "InitFailed"
    /\ ~injected
    /\ calls = 1
    /\ listeners = 0

\* C34: the FileWatcher never holds more than one unresolved resolver of
\* the engine.
C34_OneWaiter == listeners <= 1

\* what holds: every #flush registers one resolver, only a change of the
\* file removes resolvers, and a #flush that ended by timeout leaves its own
\* behind
OneWaiterPerFlush ==
    [][/\ flush => listeners' = listeners + 1
       /\ listeners' < listeners => (shellChanges /\ listeners' = 0)]_vars

\* a #flush is in its loop, the change notification has come and the timer
\* has not fired
ChangeFirst == rpc = "flushing" /\ didFlush /\ ~didTimeout

\* C36: once the change notification has come before the timer fired, the
\* #flush it belongs to ends by reading the log: as long as it is in its
\* loop it stays ahead of the timer, and what it hands back when the loop
\* ends is what #readShell finds.
C36_ChangeBeatsTimer ==
    [][ChangeFirst
          => /\ Flushed = readShell(Rejoined(log))
             /\ rpc' = "flushing" => ChangeFirst']_vars

\* what holds: a #flush whose loop ends with the timer not fired hands back
\* what #readShell finds, and one whose timer has fired hands back null,
\* whether or not the change notification came first
TimerDecides ==
    rpc = "flushing"
        => IF didTimeout THEN Flushed.null
           ELSE Flushed = readShell(Rejoined(log))

\* the timer of a #flush can fire after the change notification was
\* delivered and before the loop has looked at the flags again
TimerAfterChange ==
    [][(flushTimer /\ didFlush) => (didTimeout' /\ didFlush' /\ Flushed'.null)]_vars

\* C37: every run that was called returns or throws.
C37_RunTerminates == (op = "run" /\ rpc # "idle") ~> (rpc = "idle")

\* what holds: a run with a budget, and a run without retry, return or throw
RunWithBudgetTerminates ==
    (op = "run" /\ rpc # "idle" /\ (runTimeout # 0 \/ ~runRetry))
        ~> (rpc = "idle")

\* a run without budget and with retry goes round its loop as long as #flush
\* hands back nothing: from the head of the loop it never returns null
RetryWithoutBudgetNeverGivesUp ==
    [][(op = "run" /\ runRetry /\ runTimeout = 0 /\ rpc' = "idle"
                   /\ rpc # "idle")
          => outcome' # "null"]_vars

-----------------------------------------------------------------------------
(* Properties of a refused injection (Spec)                                *)

\* C17: when the injection of the marker command is refused (nothing is
\* typed), the waitForFlush that places the marker fails with an error.
C17_RefusedInjectionFatal ==
    [][(pc = "flag" /\ pc' = "idle" /\ typed' = typed) => ret' = "error"]_vars

-----------------------------------------------------------------------------
(* Properties of the echo matchers, checked under EchoSpec                 *)

\* line i of the batch is an echo of the command: stripped of its colour
\* tags it is >> followed by the command
IsEchoAt(i) == removeColors(pLines[i]) = Prompted(pCommand)

\* line i is the most recent echo of the batch
LastEchoAt(i) ==
    /\ i \in 1..Len(pLines)
    /\ IsEchoAt(i)
    /\ \A j \in (i + 1)..Len(pLines) : ~IsEchoAt(j)

\* the lines of the batch after line i
After(i) == SubSeq(pLines, i + 1, Len(pLines))

\* C3 for #postProcess alone: the body is what follows the last echo and the
\* echo line is the result's command.  This holds.
PostProcessCutsAtLastEcho ==
    \A i \in 1..Len(pLines) :
        (pstep = "postProcess" /\ LastEchoAt(i))
            => outPost.lines = After(i) /\ outPost.command = pLines[i]

\* C3: whichever matcher is applied to a batch that holds an echo of the
\* command, the body of the result is exactly the lines after the last echo.
C3_BodyFollowsLastEcho ==
    \A i \in 1..Len(pLines) :
        LastEchoAt(i)
            => /\ pstep = "postProcess" => outPost.lines = After(i)
               /\ pstep = "processOutput"
                      => ~outProc.threw /\ outProc.lines = After(i)

\* line i is the host's echo of the command: stripped of its colour tags it
\* is >> followed by the command with its angle brackets replaced
IsHostEchoAt(i) == removeColors(pLines[i]) = Prompted(EncodeAngles(pCommand))

\* line i is the only line of the batch that is the host's echo
OnlyHostEchoAt(i) ==
    /\ i \in 1..Len(pLines)
    /\ IsHostEchoAt(i)
    /\ \A j \in 1..Len(pLines) : j # i => ~IsHostEchoAt(j)

HasAngles(command) == EncodeAngles(command) # command

\* C32: for a command with angle brackets and a batch whose line i is the
\* host's echo of it, #postProcess gives line i as the command and the lines
\* after it as the body, and processOutput finds the echo.
C32_AngleBrackets ==
    \A i \in 1..Len(pLines) :
        (HasAngles(pCommand) /\ OnlyHostEchoAt(i))
            => /\ pstep = "postProcess"
                      => outPost.command = pLines[i] /\ outPost.lines = After(i)
               /\ pstep = "processOutput" => ~outProc.threw

\* what the code does instead: the two matchers compare with the command as
\* given, so for a command with angle brackets #postProcess never finds the
\* echo, leaves the command field empty and the whole batch as the body,
\* and processOutput throws.
AngledEchoNotRecognised ==
    HasAngles(pCommand)
        => /\ pstep = "postProcess"
                  => outPost.command = BlankLine /\ outPost.lines = pLines
           /\ pstep = "processOutput" => outProc.threw

\* the same batches with a command without angle brackets: the echo line is
\* the command field and is not part of the body
PlainEchoRecognised ==
    \A i \in 1..Len(pLines) :
        (~HasAngles(pCommand) /\ OnlyHostEchoAt(i) /\ pstep = "postProcess")
            => outPost.command = pLines[i] /\ outPost.lines = After(i)

\* line i is the only echo of the command in the batch
OnlyEchoAt(i) ==
    /\ LastEchoAt(i)
    /\ \A j \in 1..(i - 1) : ~IsEchoAt(j)

\* the success flag the first line after line i stands for
FlagAfter(i) ==
    IF After(i) # <<>> /\ After(i)[1] = SUCCESS_MESSAGE THEN "true"
    ELSE IF After(i) # <<>> /\ After(i)[1] = FAILURE_MESSAGE THEN "false"
    ELSE "undefined"

\* C21: whichever matcher is applied to a batch with one echo of the
\* command, the success flag is true, false or undefined as the first line
\* after the echo is the success line, the failure line or neither;
\* success and failure lines anywhere else do not count.
C21_SuccessTriState ==
    \A i \in 1..Len(pLines) :
        OnlyEchoAt(i)
            => /\ pstep = "postProcess" => outPost.success = FlagAfter(i)
               /\ pstep = "processOutput"
                      => ~outProc.threw /\ outProc.success = FlagAfter(i)

\* line i is the first that processOutput takes for the echo: stripped and
\* cut by two characters it is the command
FirstCutAt(i) ==
    /\ i \in 1..Len(pLines)
    /\ Substring(removeColors(pLines[i]), 2) = pCommand
    /\ \A j \in 1..(i - 1) : Substring(removeColors(pLines[j]), 2) # pCommand

\* C21 for processOutput alone, with the line it takes for the echo.  This
\* holds.
ProcessOutputFlagsFirstLine ==
    \A i \in 1..Len(pLines) :
        (pstep = "processOutput" /\ FirstCutAt(i))
            => ~outProc.threw /\ outProc.success = FlagAfter(i)

-----------------------------------------------------------------------------
(* Properties of the cooldown parsers, checked under CooldownSpec          *)

TheCooldownLine == CooldownLine(pMessage, pSeconds)

IsKernelHardlineEcho(line) == removeColors(line) = Prompted(KernelHardline)

\* the rejection line decides the response: it follows the last echo of
\* kernel.hardline, and no line of the batch is of a higher-priority kind
RejectionDecides ==
    /\ \E k \in 1..Len(pLines) :
          /\ pLines[k] = TheCooldownLine
          /\ \A j \in (k + 1)..Len(pLines) : ~IsKernelHardlineEcho(pLines[j])
    /\ \A j \in 1..Len(pLines) :
          pLines[j] \notin {ACTIVATING_HARDLINE_MESSAGE,
                            HARDLINE_ALREADY_ACTIVE_MESSAGE}

\* the rejection line is the first line after the first echo of the buffer
RejectionIsResponse ==
    \E k \in 1..(Len(pLines) - 1) :
        /\ IsKernelHardlineEcho(pLines[k])
        /\ \A j \in 1..(k - 1) : ~IsKernelHardlineEcho(pLines[j])
        /\ pLines[k + 1] = TheCooldownLine

\* C10: a rejection line carrying N seconds gives (N + 1) * 1000: from
\* #getHardlineCooldown for either rejection message when the line decides
\* the response, and from the buffer-reading getHardlineCooldown for the
\* recalibration message when the line is the response to kernel.hardline.
C10_CooldownMillis ==
    /\ (pstep = "getHardlineCooldown" /\ RejectionDecides)
           => outCool = Num((pSeconds + 1) * 1000)
    /\ (/\ pstep = "getHardlineCooldownOfBuffer"
        /\ pMessage = HARDLINE_RECALIBRATING_MESSAGE
        /\ RejectionIsResponse)
           => /\ ~outCoolBuf.threw
              /\ outCoolBuf.value = Num((pSeconds + 1) * 1000)

\* C10 witness: the line "... hardline is recalibrating. 12s left" after
\* the echo of kernel.hardline has given 13000.
C10_Witness ==
    /\ pstep = "getHardlineCooldown"
    /\ pSeconds = 12
    /\ pLines = <<EchoLine(KernelHardline),
                  CooldownLine(HARDLINE_RECALIBRATING_MESSAGE, 12)>>
    /\ outCool = Num(13000)

\* the kinds of control line the response to kernel.hardline holds, the
\* response being the lines #postProcess returned
AlreadyActiveLine ==
    \E i \in 1..Len(outPost.lines) :
        IncludesStr(outPost.lines[i], HARDLINE_ALREADY_ACTIVE_MESSAGE)
CooldownRejection ==
    \E i \in 1..Len(outPost.lines) : outPost.lines[i] = TheCooldownLine
ActivationAccepted == Contains(outPost.lines, ACTIVATING_HARDLINE_MESSAGE)

\* C11: the response to kernel.hardline is classified by the kind of highest
\* priority it holds: an already-active line gives -1 (enterHardline returns
\* 0 at once), else a cooldown rejection gives its cooldown, else an
\* activating line gives 0 (the activation sequence).
C11_PriorityOrder ==
    pstep = "getHardlineCooldown"
        => IF AlreadyActiveLine THEN outCool = Num(-1)
           ELSE IF CooldownRejection
                THEN outCool = Num((pSeconds + 1) * 1000)
           ELSE ActivationAccepted => outCool = Num(0)

\* between the two rejections the order is the claimed one: an already-active
\* line wins over a cooldown rejection when no activating line is present.
\* This holds.
AlreadyActiveBeforeCooldown ==
    (pstep = "getHardlineCooldown" /\ ~ActivationAccepted)
        => IF AlreadyActiveLine THEN outCool = Num(-1)
           ELSE CooldownRejection => outCool = Num((pSeconds + 1) * 1000)

-----------------------------------------------------------------------------
(* Properties of the send functions (SendSpec)                             *)

\* the command is empty or holds a line break
NotSingleLine(command) == command = <<>> \/ HasNewline(command)

\* C16: a send of a command that is empty or holds a line break, by sendRaw
\* or by the sendCommand that run uses, ends in a TypeError with no
\* keystroke handed to the console.
C16_SingleLineOnly ==
    (sendResult.by # "none" /\ NotSingleLine(sendResult.command))
        => (sendResult.result = "TypeError" /\ sent = <<>>)

\* This holds: sendRaw refuses such a command before any keystroke.
SendRawSingleLineOnly ==
    (sendResult.by = "sendRaw" /\ NotSingleLine(sendResult.command))
        => (sendResult.result = "TypeError" /\ sent = <<>>)

-----------------------------------------------------------------------------
(* Properties of calls before init() has completed (StartSpec)             *)

\* the call is over and it was not the sending of its command that failed
OverAndSent ==
    /\ called # "none"
    /\ raised \notin {"pending", "TypeError", "OogExecutionError"}

\* C19: a call of waitForFlush, waitForCommandFlush, flush, runCommand,
\* enterHardline or exitHardline made before init() has completed fails
\* with OogNotInitializedError (unless sending its command failed first).
C19_InitFirst == OverAndSent => raised = "OogNotInitializedError"

\* This holds: the three methods that assert first fail with that error.
AssertingMethodsFail ==
    called \in {"waitForFlush", "waitForCommandFlush", "flush"}
        => raised = "OogNotInitializedError"

\* This holds: a call that is over while init() has still not completed
\* has failed with that error.
FailsWhileNotInitialised ==
    (OverAndSent /\ ~didInit) => raised = "OogNotInitializedError"

-----------------------------------------------------------------------------
(* Properties of the FileWatcher (WatcherSpec)                             *)

\* the step delivers an event of this type
Delivers(eventType) ==
    /\ Len(wEvents') = Len(wEvents) + 1
    /\ wEvents'[Len(wEvents')] = eventType

\* the waiters from the youngest to the oldest
YoungestFirst(waiters) ==
    [i \in 1..Len(waiters) |-> waiters[Len(waiters) + 1 - i]]

\* C20: one change event releases every waiter registered before it, the
\* most recently registered first, and leaves none registered; waiters are
\* released by change events only, so one registered after an event waits
\* for a later change event.
C20_ReleasedTogether ==
    [][/\ Delivers("change")
           => /\ wReleased' = wReleased \o YoungestFirst(wListeners)
              /\ wListeners' = <<>>
       /\ wReleased' # wReleased => Delivers("change")
       /\ \A i \in 1..Len(wListeners') :
              \A j \in 1..Len(wReleased') : wListeners'[i] # wReleased'[j]]_vars

\* two waiters were released by one change event, the second registered
\* first, and a third registered after it is still waiting
C20_Witness ==
    /\ wEvents = <<"change">>
    /\ wReleased = <<2, 1>>
    /\ wListeners = <<3>>

-----------------------------------------------------------------------------
(* Properties of the markup parser (ParseSpec)                             *)

StartTags == {TagRed, TagGrey, TagUnknown, TagLower, TagNonHex}

\* how many start tags of the pieces are still open after the last piece,
\* an end tag closing the nearest open start tag
RECURSIVE OpenAfter(_, _)
OpenAfter(pieces, open) ==
    IF pieces = <<>> THEN open
    ELSE IF Head(pieces) \in StartTags THEN OpenAfter(Tail(pieces), open + 1)
    ELSE IF Head(pieces) = TagEnd /\ open > 0
         THEN OpenAfter(Tail(pieces), open - 1)
    ELSE OpenAfter(Tail(pieces), open)

\* an end tag of the pieces has no start tag open before it
RECURSIVE EndDangles(_, _)
EndDangles(pieces, open) ==
    IF pieces = <<>> THEN FALSE
    ELSE IF Head(pieces) \in StartTags THEN EndDangles(Tail(pieces), open + 1)
    ELSE IF Head(pieces) = TagEnd
         THEN open = 0 \/ EndDangles(Tail(pieces), open - 1)
    ELSE EndDangles(Tail(pieces), open)

HasPiece(piece) == \E i \in 1..Len(mPieces) : mPieces[i] = piece

\* C22: parse of an input with a color start tag that no </color> closes
\* before the end of input, at whatever depth, throws and hands back no
\* tree.
C22_UnterminatedTagThrows ==
    (mStep = "parse" /\ OpenAfter(mPieces, 0) > 0)
        => mOut.threw /\ mOut.nodes = <<>>

\* parse threw on a color tag left open inside another that is closed
C22_Witness ==
    /\ mStep = "parse"
    /\ mPieces = <<TagRed, TagRed, PlainText, TagEnd>>
    /\ mOut.threw

\* C23: parse of an input with an end tag that has no open start tag, or
\* with an end tag of another name than color at any depth, throws.
C23_EndTagErrorsThrow ==
    (mStep = "parse" /\ (EndDangles(mPieces, 0) \/ HasPiece(BoldEnd)))
        => mOut.threw /\ mOut.nodes = <<>>

\* parse threw on a </color> after the only color tag was closed
C23_Witness ==
    /\ mStep = "parse"
    /\ mPieces = <<TagRed, PlainText, TagEnd, TagEnd>>
    /\ mOut.threw

\* every color node of the tree has a value of eight hex digits
RECURSIVE ExactValues(_)
ExactValues(nodes) ==
    \A i \in 1..Len(nodes) :
        nodes[i].type = "COLOR"
            => /\ Len(nodes[i].colorHex) = 8
               /\ \A k \in 1..8 : IsHexDigit(nodes[i].colorHex[k])
               /\ ExactValues(nodes[i].children)

\* C24: parse throws on every start tag that is not <color=#RRGGBBAA>: a
\* tree it hands back holds only color nodes with a value of eight hex
\* digits, and an input with a tag of another name gives no tree.
C24_OnlyExactStartTags ==
    mStep = "parse"
        => /\ ~mOut.threw => ExactValues(mOut.nodes)
           /\ HasPiece(BoldTag) => mOut.threw

\* This holds: a start tag of another name than color throws.
UnknownTagThrows == (mStep = "parse" /\ HasPiece(BoldTag)) => mOut.threw

\* the pieces of well-formed markup
ExactPieces ==
    {PlainText, <<BACKTICK_ENCODED>>, <<LESS_THAN_ENCODED>>, TagRed, TagEnd}

\* every piece is of the given kind, every end tag closes a start tag and
\* no start tag stays open
Balanced(kinds) ==
    /\ \A i \in 1..Len(mPieces) : mPieces[i] \in kinds
    /\ ~EndDangles(mPieces, 0)
    /\ OpenAfter(mPieces, 0) = 0

\* C25: for a well-formed markup string, the tree of parse written out by
\* the markup-preserving renderer is the string again.
C25_RoundTrip ==
    (mStep = "parse" /\ Balanced(ExactPieces))
        => ~mOut.threw /\ renderPreserving(mOut.nodes) = Flatten(mPieces)

\* This holds: the stand-in of the backtick and the backtick itself give
\* the same tree, so no renderer can give both strings back.
StandInParsesAsBacktick ==
    parse(<<BACKTICK_ENCODED>>) = parse(<<BACKTICK>>)

\* This holds: the round trip of well-formed markup without stand-ins.
RoundTripWithoutStandIns ==
    (mStep = "parse" /\ Balanced({PlainText, TagRed, TagEnd}))
        => ~mOut.threw /\ renderPreserving(mOut.nodes) = Flatten(mPieces)

\* C26: the uncoloured text of a markup string that parse accepts holds
\* no start of a color tag, no </color> and no stand-in of an angle
\* bracket.
C26_NoMarkupLeft ==
    (mStep = "uncoloredText"
        /\ Balanced(ExactPieces \cup {TagLower}))
        => /\ ~IncludesStr(mOut.text, ColorTagStart)
           /\ ~IncludesStr(mOut.text, TagEnd)
           /\ \A i \in 1..Len(mOut.text) :
                  mOut.text[i] \notin {LESS_THAN_ENCODED, GREATER_THAN_ENCODED}

\* This holds: with start tags in capital hex digits nothing of the kind
\* is left.
NoMarkupLeftOfCapitalTags ==
    (mStep = "uncoloredText" /\ Balanced(ExactPieces))
        => /\ ~IncludesStr(mOut.text, ColorTagStart)
           /\ ~IncludesStr(mOut.text, TagEnd)
           /\ \A i \in 1..Len(mOut.text) :
                  mOut.text[i] \notin {LESS_THAN_ENCODED, GREATER_THAN_ENCODED}

-----------------------------------------------------------------------------
(* Properties of the ANSI renderer (AnsiSpec)                              *)

\* the escape sequences of the colours, written out
DefaultEscape ==
    IF mOptions.colorDepth = "TRUE_COLOR" THEN <<"ESC[38;2;155;155;155m">>
    ELSE IF mOptions.colorDepth = "EIGHT_BIT" THEN <<"ESC[37m">>
    ELSE <<>>
EscapeOfTag(tag) ==
    IF mOptions.colorDepth = "NONE" THEN <<>>
    ELSE IF mOptions.colorDepth = "EIGHT_BIT"
         THEN (IF tag = TagRed THEN <<"ESC[31m">> ELSE <<"ESC[37m">>)
    ELSE IF tag = TagRed THEN <<"ESC[38;2;255;0;0m">>
    ELSE IF tag = TagGrey THEN <<"ESC[38;2;155;155;155m">>
    ELSE <<"ESC[38;2;18;52;86m">>

TextOfPiece(piece) ==
    IF piece = <<CorruptionChar>> /\ mOptions.replaceCorruption
    THEN <<BlockElement>> ELSE piece

\* the pieces written out one by one: a start tag gives its escape, an end
\* tag the escape of the start tag that is open around it (open: the
\* escapes of the open start tags, the default colour first)
RECURSIVE Coloured(_, _)
Coloured(pieces, open) ==
    IF pieces = <<>> THEN <<>>
    ELSE LET piece == Head(pieces)
         IN  IF piece \in StartTags
             THEN EscapeOfTag(piece)
                      \o Coloured(Tail(pieces), Append(open, EscapeOfTag(piece)))
             ELSE IF piece = TagEnd
             THEN Front(open)[Len(open) - 1]
                      \o Coloured(Tail(pieces), Front(open))
             ELSE TextOfPiece(piece) \o Coloured(Tail(pieces), open)

\* the render of markup that parses has ended without an error
Rendered ==
    /\ mStep = "convertFromShellText"
    /\ Balanced(AnsiPieces)
    /\ ~mOut.threw

\* C27 as stated, for every colour depth: the render is the default escape,
\* the pieces in their colours, and the reset escape; the colour stack
\* holds the default colour only.
C27_ColourNesting ==
    Rendered
        => /\ mOut.text = DefaultEscape
                              \o Coloured(mPieces, <<DefaultEscape>>)
                              \o <<ResetEscape>>
           /\ mOut.colorStack = <<DefaultEscape>>

\* C27 for the colour depths that write escapes: the render starts with the
\* default escape, a start tag gives its escape, an end tag the escape of
\* the colour open around it, the reset escape ends the render, and the
\* colour stack holds the default colour only.
C27_ColourNestingWithEscapes ==
    (Rendered /\ mOptions.colorDepth # "NONE")
        => /\ mOut.text = DefaultEscape
                              \o Coloured(mPieces, <<DefaultEscape>>)
                              \o <<ResetEscape>>
           /\ mOut.colorStack = <<DefaultEscape>>

\* a grey tag inside a red one was rendered in true colour: after the
\* inner tag the text is red again, after the outer one default
C27_Witness ==
    /\ mStep = "convertFromShellText"
    /\ mOptions.colorDepth = "TRUE_COLOR"
    /\ mPieces = <<TagRed, TagGrey, TagEnd, TagEnd>>
    /\ mOut.text = <<"ESC[38;2;155;155;155m", "ESC[38;2;255;0;0m",
                     "ESC[38;2;155;155;155m", "ESC[38;2;255;0;0m",
                     "ESC[38;2;155;155;155m", ResetEscape>>

\* This holds: with the colour depth NONE the render is the text alone.
NoEscapesWithoutColours ==
    (Rendered /\ mOptions.colorDepth = "NONE")
        => mOut.text = Coloured(mPieces, <<DefaultEscape>>)

\* C28: under the reduced colour depth the render of markup that parses
\* and holds a colour without palette entry throws; no text is returned.
C28_UnknownColourThrows ==
    (/\ mStep = "convertFromShellText"
     /\ mOptions.colorDepth = "EIGHT_BIT"
     /\ Balanced(AnsiPieces)
     /\ HasPiece(TagUnknown))
        => mOut.threw /\ mOut.text = <<>>

\* the render threw on a colour without palette entry inside a known one
C28_Witness ==
    /\ mStep = "convertFromShellText"
    /\ mOptions.colorDepth = "EIGHT_BIT"
    /\ mPieces = <<TagRed, TagUnknown, TagEnd, TagEnd>>
    /\ mOut.threw
====
